---------------------------- MODULE Spec2Model ----------------------------
(***************************************************************************)
(* Stateful ECG processing on a Redis Streams work queue.                  *)
(*                                                                         *)
(* The model follows workers/ecgWorker.js (main, processJob,               *)
(* recoverPendingMessages, shutdown), the Redis Streams store that the     *)
(* worker imports (initializeConsumerGroup, queueEcgJob, dequeueEcgJob,    *)
(* ackEcgJob, recoverPendingJobs, save/load of state, metadata, results)   *)
(* and lib/ecgPipeline.js (processEcgChunk, calculateHeartRate).           *)
(*                                                                         *)
(* Every await of the JavaScript code is one step: a Redis command is      *)
(* atomic on the server, and between two awaits of one process any other   *)
(* process, a signal handler or a crash may act.                           *)
(*                                                                         *)
(* Redis itself and the dspx engine are external: a Redis command is       *)
(* modelled by its documented effect (XADD, XREADGROUP ">", XACK,          *)
(* XPENDING start end count, XCLAIM min-idle-time, SET/GET, RPUSH,         *)
(* PUBLISH); the engine is opaque, so the samples of a chunk are           *)
(* represented by the chunk-local positions of the peaks the engine        *)
(* reports for them, and the engine's state blob by the sequence of chunk  *)
(* indices it has been fed.                                                *)
(***************************************************************************)
EXTENDS Integers, Sequences, FiniteSets, TLC

(***************************************************************************)
(* Bounds of the model.                                                    *)
(***************************************************************************)
MaxMsgs == 2            \* messages the producer appends in one behaviour
MaxFaults == 1          \* injected failures of a store / engine call
MaxHalts == 1           \* worker processes that crash or are shut down
MaxDeliveryCount == 2   \* cap of a pending entry's delivery counter
EmptyPolls == 0         \* consecutive empty polls of a worker that Spec follows
MaxIdleTicks == 1       \* idle times are tracked up to MaxIdleTicks * TickMs

(***************************************************************************)
(* Program constants.                                                      *)
(***************************************************************************)
BATCH_SIZE == 1                 \* COUNT of XREADGROUP
XPENDING_COUNT == 100           \* count argument of XPENDING
IDLE_THRESHOLD_MS == 30000      \* "if (idleTime < 30000) continue"
XCLAIM_MIN_IDLE_MS == 30000     \* min-idle-time argument of XCLAIM
CHUNK_SIZE == 360               \* samples per chunk queued by ingestSignal
SAMPLE_RATE == 360              \* Hz
RR_HISTORY_LEN == 15            \* slice(-15)
BACKLOG_ENTER == 10             \* backlog mode starts above this queue depth
BACKLOG_EXIT == 5               \* and ends at or below this one

TickMs == IDLE_THRESHOLD_MS      \* wall-clock time that passes in one Tick

Workers == {"w1", "w2"}         \* consumer names, ecg-worker-<pid>
\* The callback that startPelCleanup registers with setInterval: a second
\* chain of awaits inside the process of worker "w1".
Cleanups == {"w1.cleanup"}
\* The main() of each worker process, and the timer callbacks.
Tasks == Workers \cup Cleanups
\* CONSUMER_NAME of the process that runs t
Consumer(t) == IF t \in Workers THEN t ELSE "w1"
\* Where each task stands when its process starts.
StartOf(t) == IF t \in Workers THEN "init" ELSE "timer"
Sensors == {"s1", "s2"}
PeakInputs == {<<50>>}          \* chunk-local peak positions of a queued chunk

None == <<>>
Some(x) == <<x>>
IsSome(o) == o # <<>>
Val(o) == o[1]

Min(a, b) == IF a < b THEN a ELSE b
Max(a, b) == IF a > b THEN a ELSE b

(***************************************************************************)
(* Wire encoding of integers: String(n) on the producer side, parseInt on  *)
(* the consumer side.  A decimal string is a sequence of digits.           *)
(***************************************************************************)
RECURSIVE ToDecimal(_)
ToDecimal(n) ==
    IF n < 10 THEN <<n>> ELSE Append(ToDecimal(n \div 10), n % 10)

RECURSIVE ParseInt(_)
ParseInt(s) ==
    IF Len(s) = 0 THEN 0
    ELSE ParseInt(SubSeq(s, 1, Len(s) - 1)) * 10 + s[Len(s)]

\* JSON.stringify / JSON.parse of a finite number: a sign and decimal digits.
JsonNumber(n) ==
    IF n < 0 THEN [neg |-> TRUE, digits |-> ToDecimal(0 - n)]
    ELSE [neg |-> FALSE, digits |-> ToDecimal(n)]
JsonParseNumber(x) == IF x.neg THEN 0 - ParseInt(x.digits) ELSE ParseInt(x.digits)

VARIABLES
    stream,             \* ecg:chunks: the entries appended by XADD, in id order
    groupCreated,       \* the consumer group ecg-workers exists
    lastDelivered,      \* the group's last-delivered id (an index of stream)
    pel,                \* the group's pending entries list: id -> entry
    stateStore,         \* ecg:state:<sensorId>
    metaStore,          \* ecg:metadata:<sensorId>
    resultLog,          \* ecg:results:<sensorId>
    published,          \* messages published on the channel ecg:results
    produced,           \* next chunkIndex the producer emits per sensor
    pc,                 \* position of each task
    job,                \* the job a task is processing (processJob's argument)
    previousState,      \* processJob: const previousState
    metadata,           \* processJob: const metadata
    result,             \* processJob: const result
    pendingScan,        \* recoverPendingJobs: entries of `pending` still to visit
    recoveredJobs,      \* recoverPendingJobs: recoveredJobs / the jobs still to process
    outcome,            \* how the last processJob of a task ended
    ackCalled,          \* the current processJob has called ackEcgJob
    alive,              \* "up", "crashed", "exited" or "failed" (exit code 1)
                        \* per worker process
    running,            \* let running
    pelCleanupInterval, \* the periodic recovery timer is armed
    backlogMode,        \* main(): let backlogMode, per task
    queueDepth,         \* main(): const queueDepth of the current iteration
    faults,             \* processJob calls that threw so far, per task
    scanFaults,         \* XPENDING / XCLAIM calls that threw so far
    dequeuedBy,         \* history: the consumers dequeueEcgJob returned a message to
    ackedBy,            \* history: the consumers that called ackEcgJob on a message
    persisted,          \* history: what has been written for a message
    batches,            \* history: per sensor, the global peaks and the raw R-R
                        \* intervals of every chunk whose result was saved
    queueReply,         \* what the calls of queueEcgJob resolved with, latest last
    probe,              \* a direct call of a library function: its arguments
                        \* and what it returned
    consecutiveEmptyPolls,  \* main(): let consecutiveEmptyPolls, per task
    waitTime            \* main(): the setTimeout delay awaited in the current
                        \* iteration of the loop, if any

vars == <<stream, groupCreated, lastDelivered, pel, stateStore, metaStore,
          resultLog, published, produced, pc, job, previousState, metadata,
          result, pendingScan, recoveredJobs, outcome, ackCalled, alive,
          running, pelCleanupInterval, backlogMode, queueDepth, faults,
          scanFaults, dequeuedBy, ackedBy, persisted, batches, queueReply,
          probe, consecutiveEmptyPolls, waitTime>>

pollVars == <<consecutiveEmptyPolls, waitTime>>
libVars == <<queueReply, probe, pollVars>>
queueVars == <<stream, groupCreated, lastDelivered, pel>>
storeVars == <<stateStore, metaStore, resultLog, published>>
localVars == <<job, previousState, metadata, result, pendingScan,
               recoveredJobs, outcome, ackCalled>>
procVars == <<alive, running, pelCleanupInterval>>
loopVars == <<backlogMode, queueDepth>>
histVars == <<dequeuedBy, ackedBy, persisted, batches>>


(***************************************************************************)
(* JavaScript's `x || null` on a number or null: 0, null and undefined     *)
(* are falsy.                                                              *)
(***************************************************************************)
OrNull(o) == IF IsSome(o) /\ Val(o) # 0 THEN o ELSE None

(***************************************************************************)
(* Redis Streams commands, as functions of the server's data.              *)
(***************************************************************************)
\* XADD key * field value ...: the entry is appended, its id is its position.
\* A group creation that starts the group afresh when it already exists.
XGroupCreateReset(created, last, pending) ==
    [error |-> "", created |-> TRUE, lastDelivered |-> 0, pel |-> <<>>]

\* XGROUP CREATE key group 0 MKSTREAM: a new group starts before the first
\* entry with nothing pending; an existing group is left alone and the
\* command fails with BUSYGROUP.
XGroupCreate(created, last, pending) ==
    IF created
    THEN [error |-> "BUSYGROUP", created |-> TRUE, lastDelivered |-> last,
          pel |-> pending]
    ELSE [error |-> "", created |-> TRUE, lastDelivered |-> 0, pel |-> <<>>]

\* initializeConsumerGroup's catch: every error but BUSYGROUP is rethrown.
OtherErrors == {"ECONNRESET"}
Rethrown(error) == error \notin {"", "BUSYGROUP"}

XAdd(s, entry) == Append(s, entry)

\* The reply of that XADD: the id the server gave the new entry.
XAddReply(s) == Len(s) + 1

\* XREADGROUP GROUP g c COUNT n STREAMS key ">": the ids handed out, the
\* never-delivered entries after the group's last-delivered id, at most n.
XReadGroup(s, last, n) == (last + 1)..Min(last + n, Len(s))

\* The pending entry XREADGROUP creates for the consumer.
NewPending(consumer) == [consumer |-> consumer, idle |-> 0, deliveries |-> 1]

PelWith(p, id, e) ==
    [i \in DOMAIN p \cup {id} |-> IF i = id THEN e ELSE p[i]]

\* An acknowledgment that is cumulative: it also drops every older entry.
XAckUpTo(p, id) == [i \in {j \in DOMAIN p : j > id} |-> p[i]]

\* XACK key group id: the entry leaves the PEL; an id that is not pending
\* changes nothing and is no error (the reply is 0).
XAck(p, id) == [i \in DOMAIN p \ {id} |-> p[i]]

\* XPENDING key group - + count: the first `count` pending entries in id
\* order, each as [messageId, consumer, idleTime, deliveryCount].
XPending(p, count) ==
    LET top == IF DOMAIN p = {} THEN 0
               ELSE CHOOSE i \in DOMAIN p : \A j \in DOMAIN p : j <= i
        ids == SelectSeq([i \in 1..top |-> i], LAMBDA i : i \in DOMAIN p)
        cut == SubSeq(ids, 1, Min(count, Len(ids)))
    IN  [k \in 1..Len(cut) |->
            [messageId |-> cut[k], consumer |-> p[cut[k]].consumer,
             idleTime |-> p[cut[k]].idle,
             deliveryCount |-> p[cut[k]].deliveries]]

\* XCLAIM key group consumer min-idle-time id: claims the entry iff it is
\* pending and has been idle for at least min-idle-time.
XClaimable(p, id, minIdle) == id \in DOMAIN p /\ p[id].idle >= minIdle

\* The entry after a successful XCLAIM: new owner, idle time reset, delivery
\* counter incremented.
XClaim(p, id, consumer) ==
    [p EXCEPT ![id] = [consumer |-> consumer, idle |-> 0,
                       deliveries |-> @.deliveries + 1]]

(***************************************************************************)
(* redisStore: the per-sensor keys ecg:state:<id> and ecg:metadata:<id>.   *)
(***************************************************************************)
\* A store that keeps one key for all sensors.
StoreSetAnyKey(store, key, value) == [k \in DOMAIN store |-> Some(value)]

\* A set that keeps the value a key already has (SET ... NX).
StoreSetIfAbsent(store, key, value) ==
    IF IsSome(store[key]) THEN store ELSE [store EXCEPT ![key] = Some(value)]

\* redis.set(key, value): unconditional overwrite of that key.
StoreSet(store, key, value) == [store EXCEPT ![key] = Some(value)]

\* redis.get(key) / redis.getBuffer(key): the value, or null.
StoreGet(store, key) == store[key]

\* saveMetadata: JSON.stringify({lastPeakSample, rrHistory}).
JsonStringify(md) ==
    [lastPeakSample |-> IF IsSome(md.lastPeakSample)
                        THEN Some(JsonNumber(Val(md.lastPeakSample))) ELSE None,
     rrHistory |-> [i \in 1..Len(md.rrHistory) |-> JsonNumber(md.rrHistory[i])]]

\* loadMetadata: data ? JSON.parse(data) : null
JsonParse(text) ==
    [lastPeakSample |-> IF IsSome(text.lastPeakSample)
                        THEN Some(JsonParseNumber(Val(text.lastPeakSample)))
                        ELSE None,
     rrHistory |-> [i \in 1..Len(text.rrHistory) |->
                       JsonParseNumber(text.rrHistory[i])]]
LoadMetadataReply(data) == IF IsSome(data) THEN Some(JsonParse(Val(data))) ELSE None

(***************************************************************************)
(* redisStore: jobs on the wire and as returned to the worker.             *)
(***************************************************************************)
\* queueEcgJob: the fields written by XADD (id and timestamp only feed logs).
JobData(sensorId, chunkIndex, samples) ==
    [sensorId |-> sensorId, chunkIndex |-> ToDecimal(chunkIndex),
     samples |-> samples]

\* dequeueEcgJob / recoverPendingJobs: the job parsed from an entry's fields.
ParseJob(messageId, fields, deliveryCount) ==
    [messageId |-> messageId, sensorId |-> fields.sensorId,
     chunkIndex |-> ParseInt(fields.chunkIndex), samples |-> fields.samples,
     deliveryCount |-> deliveryCount]

(***************************************************************************)
(* lib/ecgPipeline.js                                                      *)
(***************************************************************************)
\* Intervals are held in units of 1/MS_DEN ms, so that
\* ((peaks[i] - peaks[i-1]) / sampleRate) * 1000 is exact for 360 Hz.
\* (The Float32Array rounding of the stored value is not modelled.)
MS_DEN == 9

\* calculateHeartRate: the R-R intervals of a list of peaks.
RRIntervals(peaks, sampleRate) ==
    IF Len(peaks) < 2 THEN <<>>
    ELSE [i \in 1..(Len(peaks) - 1) |->
            ((peaks[i + 1] - peaks[i]) * 1000 * MS_DEN) \div sampleRate]

\* A slice that keeps the oldest n entries instead of the newest.
FirstN(s, n) == IF Len(s) <= n THEN s ELSE SubSeq(s, 1, n)

\* [...rrHistory, ...rrIntervals].slice(-15)
LastN(s, n) == IF Len(s) <= n THEN s ELSE SubSeq(s, Len(s) - n + 1, Len(s))

\* Peaks left at their position inside the chunk.
LocalPeaksOnly(chunkIndex, localPeaks) ==
    [i \in 1..Len(localPeaks) |-> localPeaks[i]]

\* The chunk's peaks as sample positions counted from the start of the signal.
GlobalPeaks(chunkIndex, localPeaks) ==
    [i \in 1..Len(localPeaks) |-> chunkIndex * CHUNK_SIZE + localPeaks[i]]

RECURSIVE Sum(_)
Sum(s) == IF s = <<>> THEN 0 ELSE s[1] + Sum(Tail(s))

\* A JavaScript number that is an integer or Infinity.
Finite(v) == [finite |-> TRUE, value |-> v]
Infinite == [finite |-> FALSE, value |-> 0]
\* A comparison that lets the threshold itself through.
AtMost(x, k) == x.finite /\ x.value <= k
Below(x, k) == x.finite /\ x.value < k
Above(x, k) == ~x.finite \/ x.value > k

\* Math.round(a / b) for b > 0: the nearest integer, halves upwards.
RoundDiv(a, b) == (2 * a + b) \div (2 * b)

\* A rate computed without the guard for fewer than two peaks.
HeartRateUnguarded(peaks, sampleRate) ==
    LET rr == RRIntervals(peaks, sampleRate)
        total == Sum(rr)
    IN  IF total > 0
        THEN [finite |-> TRUE,
              value |-> (2 * 60000 * MS_DEN * Len(rr) + total) \div (2 * total)]
        ELSE [finite |-> FALSE, value |-> 0]

\* calculateHeartRate's bpm: Math.round(60000 / avgRR), avgRR the mean of the
\* raw intervals; 0 with fewer than two peaks, Infinity when avgRR is 0.
MS_PER_MINUTE == 60000
HeartRate(peaks, sampleRate) ==
    IF Len(peaks) < 2 THEN Finite(0)
    ELSE LET rr == RRIntervals(peaks, sampleRate)
             total == Sum(rr)
             num == MS_PER_MINUTE * MS_DEN * Len(rr)
         IN  IF total = 0 THEN Infinite
             ELSE IF total > 0 THEN Finite(RoundDiv(num, total))
             ELSE Finite(RoundDiv(-num, -total))

\* An interval in samples (intervals are whole multiples of this unit).
UnitsPerSample == (1000 * MS_DEN) \div SAMPLE_RATE

\* a <= 50 * sqrt(v), for a >= 0 and v >= 0, without leaving 32 bits.
Leq50Sqrt(a, v) ==
    LET q == a \div 50
        r == a % 50
        rem == v - q * q
    IN  rem >= 0 /\ rem >= (100 * q * r + r * r + 2499) \div 2500

\* The largest h in lo..hi with (h - 1/2) <= sqrt(v) * 25 / (9 * n); lo holds.
RECURSIVE HrvSearch(_, _, _, _)
HrvSearch(lo, hi, n, v) ==
    IF lo = hi THEN lo
    ELSE LET mid == (lo + hi + 1) \div 2
         IN  IF Leq50Sqrt((2 * mid - 1) * MS_DEN * n, v)
             THEN HrvSearch(mid, hi, n, v)
             ELSE HrvSearch(lo, mid - 1, n, v)

\* rollingHrv: Math.round(Math.sqrt(variance)) over the rolling history, 0
\* with fewer than two intervals.
HrvCap == 4096
RollingHrv(window) ==
    IF Len(window) < 2 THEN 0
    ELSE LET n == Len(window)
             d == [i \in 1..n |-> window[i] \div UnitsPerSample]
             v == n * Sum([i \in 1..n |-> d[i] * d[i]]) - Sum(d) * Sum(d)
         IN  HrvSearch(0, HrvCap, n, v)

\* calculateHeartRate, the loop over rrIntervals.  A number of that loop is
\* held as a fraction num/den of the interval unit; `outlier[i]` says whether
\* the engine's z-score of interval i has Math.abs(z) > Z_THRESHOLD.
RECURSIVE Gcd(_, _)
Gcd(a, b) == IF b = 0 THEN a ELSE Gcd(b, a % b)
Fraction(num, den) ==
    LET g == Gcd(num, den) IN [num |-> num \div g, den |-> den \div g]

MIN_RR_MS == 300
MAX_RR_MS == 2000
WARM_UP == 5
SMOOTHING_DEN == 5          \* runningMean * 0.8 + rr * 0.2

\* const isOutOfRange = rr < 300 || rr > 2000
IsOutOfRange(rr) == rr < MIN_RR_MS * MS_DEN \/ rr > MAX_RR_MS * MS_DEN

\* runningMean = runningMean * 0.8 + rr * 0.2
Smoothed(mean, rr) ==
    Fraction((SMOOTHING_DEN - 1) * mean.num + rr * mean.den,
             SMOOTHING_DEN * mean.den)

\* The iterations i, i + 1, ... of the loop (i counts from 1 here, from 0 in
\* the code); `done` holds nnIntervals, the flags and the value runningMean
\* had at the start of each iteration so far.
RECURSIVE CleanFrom(_, _, _, _, _)
CleanFrom(rrIntervals, outlier, i, runningMean, done) ==
    IF i > Len(rrIntervals) THEN done
    ELSE LET rr == rrIntervals[i]
             isStatisticalOutlier == (i - 1) > WARM_UP /\ outlier[i]
             flagged == IsOutOfRange(rr) \/ isStatisticalOutlier
             next == [nnIntervals |->
                          Append(done.nnIntervals,
                                 IF flagged THEN runningMean ELSE Fraction(rr, 1)),
                      flagged |-> Append(done.flagged, flagged),
                      runningMean |-> Append(done.runningMean, runningMean),
                      ectopicCount |-> done.ectopicCount + (IF flagged THEN 1 ELSE 0)]
         IN  CleanFrom(rrIntervals, outlier, i + 1,
                       IF flagged THEN runningMean ELSE Smoothed(runningMean, rr),
                       next)

\* let runningMean = rrIntervals[0]; for (let i = 0; ...) {...}
CleanIntervals(rrIntervals, outlier) ==
    CleanFrom(rrIntervals, outlier, 1, Fraction(rrIntervals[1], 1),
              [nnIntervals |-> <<>>, flagged |-> <<>>, runningMean |-> <<>>,
               ectopicCount |-> 0])

BRADYCARDIA_BPM == 60
TACHYCARDIA_BPM == 100
CRITICAL_BPM == 150
IRREGULAR_HRV == 150

\* A test that already fires at a ratio of exactly 1.5.
PvcPairInclusive(a, b) ==
    LET hi == Max(a, b)
        lo == Min(a, b)
    IN  IF lo > 0 THEN 2 * hi >= 3 * lo ELSE lo = 0 /\ hi > 0

\* Math.max(a, b) / Math.min(a, b) > 1.5 for two adjacent intervals.
PvcPair(a, b) ==
    LET hi == Max(a, b)
        lo == Min(a, b)
    IN  IF lo > 0 THEN 2 * hi > 3 * lo
        ELSE IF lo = 0 THEN hi > 0
        ELSE 2 * hi < 3 * lo

Alert(type, severity) == [type |-> type, severity |-> severity]

\* detectArrhythmia(bpm, hrv, currentRrIntervals)
DetectArrhythmia(bpm, hrv, currentRrIntervals) ==
    LET brady == IF Above(bpm, 0) /\ Below(bpm, BRADYCARDIA_BPM)
                 THEN <<Alert("bradycardia", "warning")>> ELSE <<>>
        tachy == IF Above(bpm, 0) /\ Above(bpm, TACHYCARDIA_BPM)
                 THEN <<Alert("tachycardia",
                              IF Above(bpm, CRITICAL_BPM) THEN "critical"
                              ELSE "warning")>>
                 ELSE <<>>
        irregular == IF hrv > IRREGULAR_HRV
                     THEN <<Alert("irregular", "warning")>> ELSE <<>>
        pvc == IF \E i \in 2..Len(currentRrIntervals) :
                     PvcPair(currentRrIntervals[i], currentRrIntervals[i - 1])
               THEN <<Alert("pvc", "info")>> ELSE <<>>
        alerts == brady \o tachy \o irregular \o pvc
    IN  [normal |-> alerts = <<>>, alerts |-> alerts]

\* processEcgChunk(chunk, previousState, metadata); `chunk` is given by the
\* local peaks the engine finds in it, the blob by the chunks fed so far.
ProcessEcgChunk(chunk, prevState, md) ==
    LET chunkIndex == md.chunkIndex
        lastPeakSample == OrNull(md.lastPeakSample)
        rrHistory == md.rrHistory
        localPeaks == chunk
        globalPeaks == GlobalPeaks(chunkIndex, localPeaks)
        allPeaks == IF IsSome(lastPeakSample)
                    THEN <<Val(lastPeakSample)>> \o globalPeaks
                    ELSE globalPeaks
        newState == Append(IF IsSome(prevState) THEN Val(prevState) ELSE <<>>,
                           chunkIndex)
        rrIntervals == RRIntervals(allPeaks, SAMPLE_RATE)
        bpm == HeartRate(allPeaks, SAMPLE_RATE)
        updatedRrHistory == LastN(rrHistory \o rrIntervals, RR_HISTORY_LEN)
        rollingHrv == RollingHrv(updatedRrHistory)
        arrhythmia == DetectArrhythmia(bpm, rollingHrv, rrIntervals)
        newLastPeakSample == IF Len(globalPeaks) > 0
                             THEN Some(globalPeaks[Len(globalPeaks)])
                             ELSE lastPeakSample
    IN  [peaks |-> localPeaks, rrIntervals |-> rrIntervals, bpm |-> bpm,
         hrv |-> rollingHrv, arrhythmia |-> arrhythmia, state |-> newState,
         lastPeakSample |-> newLastPeakSample, rrHistory |-> updatedRrHistory]

(***************************************************************************)
(* workers/ecgWorker.js: processJob                                        *)
(***************************************************************************)
\* (await loadMetadata(sensorId)) || {}
EmptyMetadata == [lastPeakSample |-> None, rrHistory |-> <<>>]
LoadedMetadata(stored) == IF IsSome(stored) THEN Val(stored) ELSE EmptyMetadata

\* A worker that carries nothing over from the chunk before.
ChunkMetadataFresh(j, loaded) ==
    [chunkIndex |-> j.chunkIndex, lastPeakSample |-> None, rrHistory |-> <<>>]

\* The third argument processJob passes to processEcgChunk.
ChunkMetadata(j, loaded) ==
    [chunkIndex |-> j.chunkIndex,
     lastPeakSample |-> OrNull(loaded.lastPeakSample),
     rrHistory |-> loaded.rrHistory]

\* The metadata record processJob saves.
SavedMetadata(r) == [lastPeakSample |-> r.lastPeakSample, rrHistory |-> r.rrHistory]

\* resultData, without the clock readings.
ResultData(j, r) ==
    [chunkIndex |-> j.chunkIndex, peaks |-> Len(r.peaks), bpm |-> r.bpm,
     hrv |-> r.hrv, arrhythmia |-> r.arrhythmia]

\* The statements of processJob's try block, in order.
JobSteps == {"loadState", "loadMeta", "process", "saveState", "saveMeta",
             "saveResult", "publish", "ack"}

\* A try block that acknowledges right after the state blob is saved.
AfterStepAckEarly(p) ==
    CASE p = "loadState" -> "loadMeta"
      [] p = "loadMeta" -> "process"
      [] p = "process" -> "saveState"
      [] p = "saveState" -> "ack"
      [] p = "saveMeta" -> "saveResult"
      [] p = "saveResult" -> "publish"
      [] p = "publish" -> "ack"
      [] p = "ack" -> "jobEnd"

\* A try block that goes from the state save straight to the result.
AfterStepNoMetaSave(p) ==
    CASE p = "loadState" -> "loadMeta"
      [] p = "loadMeta" -> "process"
      [] p = "process" -> "saveState"
      [] p = "saveState" -> "saveResult"
      [] p = "saveMeta" -> "saveResult"
      [] p = "saveResult" -> "publish"
      [] p = "publish" -> "ack"
      [] p = "ack" -> "jobEnd"

AfterStep(p) ==
    CASE p = "loadState" -> "loadMeta"
      [] p = "loadMeta" -> "process"
      [] p = "process" -> "saveState"
      [] p = "saveState" -> "saveMeta"
      [] p = "saveMeta" -> "saveResult"
      [] p = "saveResult" -> "publish"
      [] p = "publish" -> "ack"
      [] p = "ack" -> "jobEnd"

\* Between the load of the entity's state and the acknowledgment.
InFlight(p) == p \in JobSteps \ {"loadState"}

\* A catch block that acknowledges the failed job.
PelAfterCatchAcks(p, id) == XAck(p, id)

\* processJob's catch block: it logs and returns; the PEL is not touched.
PelAfterCatch(p, id) == p

\* A catch block that rethrows: main() rejects.
AfterCatchRethrows == "rejected"

\* Where main() continues when processJob's promise settles after a throw.
AfterCatch == "jobEnd"


(***************************************************************************)
(* Initial state: an empty Redis, the worker processes just started.       *)
(***************************************************************************)
Init ==
    /\ stream = <<>>
    /\ groupCreated = FALSE
    /\ lastDelivered = 0
    /\ pel = <<>>
    /\ stateStore = [e \in Sensors |-> None]
    /\ metaStore = [e \in Sensors |-> None]
    /\ resultLog = [e \in Sensors |-> <<>>]
    /\ published = [e \in Sensors |-> <<>>]
    /\ produced = [e \in Sensors |-> 0]
    /\ pc = [t \in Tasks |-> StartOf(t)]
    /\ job = [t \in Tasks |-> None]
    /\ previousState = [t \in Tasks |-> None]
    /\ metadata = [t \in Tasks |-> None]
    /\ result = [t \in Tasks |-> None]
    /\ pendingScan = [t \in Tasks |-> <<>>]
    /\ recoveredJobs = [t \in Tasks |-> <<>>]
    /\ outcome = [t \in Tasks |-> "none"]
    /\ ackCalled = [t \in Tasks |-> FALSE]
    /\ alive = [w \in Workers |-> "up"]
    /\ running = [w \in Workers |-> FALSE]
    /\ pelCleanupInterval = [w \in Workers |-> FALSE]
    /\ backlogMode = [t \in Tasks |-> FALSE]
    /\ queueDepth = [t \in Tasks |-> None]
    /\ faults = [t \in Tasks |-> 0]
    /\ scanFaults = 0
    /\ dequeuedBy = <<>>
    /\ ackedBy = <<>>
    /\ persisted = <<>>
    /\ batches = [e \in Sensors |-> <<>>]
    /\ queueReply = <<>>
    /\ probe = None
    /\ consecutiveEmptyPolls = [t \in Tasks |-> 0]
    /\ waitTime = [t \in Tasks |-> None]

Up(t) == alive[Consumer(t)] = "up"
\* The worker processes that have ended.
Halted == {w \in Workers : alive[w] # "up"}

RECURSIVE SumOver(_, _)
SumOver(f, S) ==
    IF S = {} THEN 0
    ELSE LET x == CHOOSE y \in S : TRUE IN f[x] + SumOver(f, S \ {x})

\* A call may still be made to fail.
MayFail == SumOver(faults, Tasks) + scanFaults < MaxFaults

\* History: x is added to what is recorded for message id.
Noted(h, id, x) ==
    [i \in DOMAIN h \cup {id} |->
        IF i = id THEN (IF i \in DOMAIN h THEN h[i] ELSE <<>>) \o <<x>>
        ELSE h[i]]
NotedFor(h, id) == IF id \in DOMAIN h THEN h[id] ELSE <<>>

\* History: x is added to the set recorded for message id.
Marked(h, id, x) ==
    [i \in DOMAIN h \cup {id} |->
        IF i = id THEN (IF i \in DOMAIN h THEN h[i] ELSE {}) \cup {x}
        ELSE h[i]]
MarkedFor(h, id) == IF id \in DOMAIN h THEN h[id] ELSE {}
Range(q) == {q[i] : i \in DOMAIN q}

(***************************************************************************)
(* The queue functions of the store, as the effect of their Redis command  *)
(* on the server.                                                          *)
(***************************************************************************)
\* XREADGROUP with NOACK: the reply is handed out without a pending entry.
DequeueNoAck(consumer, ids) ==
    /\ lastDelivered' = lastDelivered + Cardinality(ids)
    /\ pel' = pel
    /\ dequeuedBy' = IF ids = {} THEN dequeuedBy
                     ELSE Noted(dequeuedBy, CHOOSE i \in ids : TRUE, consumer)

\* A read that leaves the group's last-delivered id where it was.
DequeueNoAdvance(consumer, ids) ==
    /\ lastDelivered' = lastDelivered
    /\ pel' = [i \in DOMAIN pel \cup ids |->
                  IF i \in ids THEN NewPending(consumer) ELSE pel[i]]
    /\ dequeuedBy' = IF ids = {} \/ Len(NotedFor(dequeuedBy, lastDelivered + 1)) > 1
                     THEN dequeuedBy
                     ELSE Noted(dequeuedBy, CHOOSE i \in ids : TRUE, consumer)

\* dequeueEcgJob(consumerName): XREADGROUP creates a pending entry for each
\* id of its reply and moves the group's last-delivered id.
DequeueCommand(consumer, ids) ==
    /\ lastDelivered' = lastDelivered + Cardinality(ids)
    /\ pel' = [i \in DOMAIN pel \cup ids |->
                  IF i \in ids THEN NewPending(consumer) ELSE pel[i]]
    /\ dequeuedBy' = IF ids = {} THEN dequeuedBy
                     ELSE Noted(dequeuedBy, CHOOSE i \in ids : TRUE, consumer)

\* ackEcgJob(messageId): XACK.
AckCommand(consumer, id) ==
    /\ pel' = XAck(pel, id)
    /\ ackedBy' = Marked(ackedBy, id, consumer)

\* A claim that looks at no idle time at all.
ClaimedWhateverIdle(entry) == entry.messageId \in DOMAIN pel

\* A claim that goes by the idle time of the XPENDING reply alone.
ClaimedOnScan(entry) ==
    /\ entry.idleTime >= IDLE_THRESHOLD_MS
    /\ entry.messageId \in DOMAIN pel

\* recoverPendingJobs, one iteration of `for (const entry of pending)`:
\* whether the entry is claimed, and the jobs recovered so far.
Claimed(entry) ==
    /\ entry.idleTime >= IDLE_THRESHOLD_MS
    /\ XClaimable(pel, entry.messageId, XCLAIM_MIN_IDLE_MS)

\* The XCLAIM of that iteration, while the delivery counter is below cap.
ClaimCommandBelow(cap, consumer, entry) ==
    /\ Claimed(entry) => pel[entry.messageId].deliveries < cap
    /\ pel' = IF Claimed(entry) THEN XClaim(pel, entry.messageId, consumer)
              ELSE pel

ClaimCommand(consumer, entry) ==
    ClaimCommandBelow(MaxDeliveryCount, consumer, entry)

\* A recovery that claims the entry and hands no job back for it.
RecoveredDropped(jobs, entry) == jobs

RecoveredWith(jobs, entry) ==
    IF Claimed(entry)
    THEN Append(jobs, ParseJob(entry.messageId, stream[entry.messageId],
                               Some(entry.deliveryCount)))
    ELSE jobs

\* Start of processJob(j): the locals of the previous invocation are gone.
StartJob(t, j) ==
    /\ job' = [job EXCEPT ![t] = Some(j)]
    /\ previousState' = [previousState EXCEPT ![t] = None]
    /\ metadata' = [metadata EXCEPT ![t] = None]
    /\ result' = [result EXCEPT ![t] = None]
    /\ ackCalled' = [ackCalled EXCEPT ![t] = FALSE]

\* processJob has returned: its locals are gone.
EndJob(t) ==
    /\ job' = [job EXCEPT ![t] = None]
    /\ previousState' = [previousState EXCEPT ![t] = None]
    /\ metadata' = [metadata EXCEPT ![t] = None]
    /\ result' = [result EXCEPT ![t] = None]
    /\ ackCalled' = [ackCalled EXCEPT ![t] = FALSE]
    /\ outcome' = [outcome EXCEPT ![t] = "none"]

(***************************************************************************)
(* The producer (scripts/ingestData.js): one chunk after the other per     *)
(* sensor, chunkIndex counting from 0.                                     *)
(***************************************************************************)
\* Sensors are interchangeable: "s2" starts streaming after "s1" has.
SensorBefore(o, e) == o = "s1" /\ e = "s2"

\* await queueEcgJob({id, sensorId, chunkIndex, samples})
\* What `await queueEcgJob(job)` evaluates to when XADD replied `id`: the
\* function has no return statement, so its promise resolves with undefined
\* (None).
QueueEcgJobReply(id) == None

Enqueue(e, samples) ==
    /\ stream' = XAdd(stream, JobData(e, produced[e], samples))
    /\ produced' = [produced EXCEPT ![e] = @ + 1]
    /\ queueReply' = <<QueueEcgJobReply(XAddReply(stream))>>
    /\ UNCHANGED <<probe, pollVars, loopVars, groupCreated, lastDelivered, pel, storeVars,
                   pc, localVars, procVars, faults, scanFaults, histVars>>

QueueEcgJob(e, samples) ==
    /\ Len(stream) < MaxMsgs
    /\ \A o \in Sensors : SensorBefore(o, e) => produced[o] > 0
    /\ Enqueue(e, samples)

(***************************************************************************)
(* main(): start-up.                                                       *)
(***************************************************************************)
\* XGROUP CREATE ... "0" MKSTREAM; BUSYGROUP is caught.
InitializeConsumerGroup(t) ==
    /\ Up(t) /\ pc[t] = "init"
    /\ LET reply == XGroupCreate(groupCreated, lastDelivered, pel)
       IN  /\ ~Rethrown(reply.error)
           /\ groupCreated' = reply.created
           /\ lastDelivered' = reply.lastDelivered
           /\ pel' = reply.pel
    /\ pc' = [pc EXCEPT ![t] = "xpending"]
    /\ UNCHANGED <<libVars, loopVars, stream, storeVars, produced, localVars,
                   procVars, faults, scanFaults, histVars>>

\* XGROUP CREATE fails with another error (the connection is lost, ...): the
\* command has no effect, initializeConsumerGroup rethrows, main() rejects
\* and its catch handler ends the process with process.exit(1).
InitializeConsumerGroupFails(t) ==
    /\ Up(t) /\ pc[t] = "init"
    /\ Cardinality(Halted) < MaxHalts
    /\ \E error \in OtherErrors :
          /\ Rethrown(error)
          /\ alive' = [alive EXCEPT ![Consumer(t)] = "failed"]
    /\ UNCHANGED <<libVars, loopVars, queueVars, storeVars, produced, pc,
                   localVars, running, pelCleanupInterval, faults, scanFaults,
                   histVars>>

\* A main() that enters its loop without arming the timer.
StartLoopUnarmed(t) ==
    /\ pelCleanupInterval' = pelCleanupInterval
    /\ running' = [running EXCEPT ![Consumer(t)] = TRUE]
    /\ pc' = [pc EXCEPT ![t] = "poll"]

\* startPelCleanup(); running = true; and main() enters its loop, which
\* runs on to the first awaited dequeueEcgJob.  The timer is armed; its
\* callback (CleanupFires) is due every 5 minutes.
StartPelCleanup(t) ==
    /\ pelCleanupInterval' = [pelCleanupInterval EXCEPT ![Consumer(t)] = TRUE]
    /\ running' = [running EXCEPT ![Consumer(t)] = TRUE]
    /\ pc' = [pc EXCEPT ![t] = "poll"]

\* recoverPendingMessages returns to its caller: main() goes on to
\* startPelCleanup, the timer callback ends until the timer fires again.
RecoveryReturns(t) ==
    IF t \in Workers
    THEN StartPelCleanup(t)
    ELSE /\ pc' = [pc EXCEPT ![t] = "timer"]
         /\ UNCHANGED <<running, pelCleanupInterval>>

\* recoverPendingMessages after recoverPendingJobs has returned `jobs`, or
\* after one of them has been processed: processJob on the next one, or
\* return to main().
AfterRecovery(t, jobs) ==
    IF Len(jobs) = 0
    THEN /\ recoveredJobs' = [recoveredJobs EXCEPT ![t] = <<>>]
         /\ EndJob(t)
         /\ RecoveryReturns(t)
    ELSE /\ pc' = [pc EXCEPT ![t] = "loadState"]
         /\ recoveredJobs' = [recoveredJobs EXCEPT ![t] = Tail(jobs)]
         /\ StartJob(t, Head(jobs))
         /\ outcome' = [outcome EXCEPT ![t] = "none"]
         /\ UNCHANGED <<running, pelCleanupInterval>>

\* recoverPendingJobs: the XPENDING call.  An empty reply returns [] and
\* recoverPendingMessages returns at once.
RecoverScan(t) ==
    /\ Up(t) /\ pc[t] = "xpending"
    /\ LET pending == XPending(pel, XPENDING_COUNT)
       IN  IF Len(pending) = 0
           THEN /\ AfterRecovery(t, <<>>)
                /\ UNCHANGED pendingScan
           ELSE /\ pendingScan' = [pendingScan EXCEPT ![t] = pending]
                /\ recoveredJobs' = [recoveredJobs EXCEPT ![t] = <<>>]
                /\ pc' = [pc EXCEPT ![t] = "xclaim"]
                /\ UNCHANGED <<job, previousState, metadata, result, ackCalled,
                               outcome, running, pelCleanupInterval>>
    /\ UNCHANGED <<libVars, loopVars, queueVars, storeVars, produced, alive, faults, scanFaults,
                   histVars>>

\* recoverPendingJobs: one iteration of `for (const entry of pending)`.
RecoverClaimBelow(cap, t) ==
    /\ Up(t) /\ pc[t] = "xclaim" /\ Len(pendingScan[t]) > 0
    /\ LET entry == Head(pendingScan[t])
           rest == Tail(pendingScan[t])
           jobs == RecoveredWith(recoveredJobs[t], entry)
       IN  /\ ClaimCommandBelow(cap, Consumer(t), entry)
           /\ pendingScan' = [pendingScan EXCEPT ![t] = rest]
           /\ IF Len(rest) > 0
              THEN /\ recoveredJobs' = [recoveredJobs EXCEPT ![t] = jobs]
                   /\ UNCHANGED <<pc, job, previousState, metadata, result,
                                  ackCalled, outcome, running,
                                  pelCleanupInterval>>
              ELSE AfterRecovery(t, jobs)
    /\ UNCHANGED <<libVars, loopVars, stream, groupCreated, lastDelivered, storeVars, produced,
                   alive, faults, scanFaults, histVars>>

RecoverClaim(t) == RecoverClaimBelow(MaxDeliveryCount, t)

\* A Redis error reply during recovery: XPENDING's is caught by
\* recoverPendingMessages (nothing is recovered), XCLAIM's by the per-entry
\* try/catch of recoverPendingJobs (the entry is skipped).
RecoverFail(t) ==
    /\ Up(t) /\ MayFail
    /\ scanFaults' = scanFaults + 1
    /\ \/ /\ pc[t] = "xpending"
          /\ AfterRecovery(t, <<>>)
          /\ UNCHANGED pendingScan
       \/ /\ pc[t] = "xclaim" /\ Len(pendingScan[t]) > 0
          /\ pendingScan' = [pendingScan EXCEPT ![t] = Tail(@)]
          /\ IF Len(pendingScan[t]) > 1
             THEN UNCHANGED <<pc, job, previousState, metadata, result,
                              recoveredJobs, ackCalled, outcome, running,
                              pelCleanupInterval>>
             ELSE AfterRecovery(t, recoveredJobs[t])
    /\ UNCHANGED <<libVars, loopVars, queueVars, storeVars, produced, alive, faults, histVars>>

(***************************************************************************)
(* main(): the polling loop.                                               *)
(***************************************************************************)
EMPTY_POLL_LIMIT == 5
SHORT_WAIT_MS == 10
LONG_WAIT_MS == 100

\* A wait that is long from the 5th consecutive empty poll on.
EmptyPollWaitFromLimit(polls) ==
    IF polls >= EMPTY_POLL_LIMIT THEN LONG_WAIT_MS ELSE SHORT_WAIT_MS

\* const waitTime = consecutiveEmptyPolls > 5 ? 100 : 10
EmptyPollWait(polls) ==
    IF polls > EMPTY_POLL_LIMIT THEN LONG_WAIT_MS ELSE SHORT_WAIT_MS

\* One iteration of `while (running)` up to its first await after the poll.
\* const job = await dequeueEcgJob(CONSUMER_NAME): the first message of the
\* XREADGROUP reply, or null when the block times out with nothing new.  With
\* a job, consecutiveEmptyPolls = 0 and getQueueDepth is called; without,
\* consecutiveEmptyPolls++ and the loop sleeps for waitTime.  Consecutive
\* empty polls are followed up to `polls` of them.
DequeueEcgJobWithin(polls, t) ==
    /\ Up(t) /\ pc[t] = "poll" /\ running[Consumer(t)] /\ groupCreated
    /\ LET ids == XReadGroup(stream, lastDelivered, BATCH_SIZE)
       IN  /\ DequeueCommand(Consumer(t), ids)
           /\ IF ids = {}
              THEN /\ consecutiveEmptyPolls[t] < polls
                   /\ consecutiveEmptyPolls' =
                         [consecutiveEmptyPolls EXCEPT ![t] = @ + 1]
                   /\ waitTime' = [waitTime EXCEPT
                         ![t] = Some(EmptyPollWait(consecutiveEmptyPolls'[t]))]
                   /\ UNCHANGED <<pc, job, previousState, metadata, result,
                                  ackCalled>>
              ELSE /\ consecutiveEmptyPolls' =
                         [consecutiveEmptyPolls EXCEPT ![t] = 0]
                   /\ waitTime' = [waitTime EXCEPT ![t] = None]
                   /\ StartJob(t, ParseJob(lastDelivered + 1,
                                           stream[lastDelivered + 1], None))
                   /\ pc' = [pc EXCEPT ![t] = "depth"]
    /\ UNCHANGED <<queueReply, probe, loopVars, stream, groupCreated, storeVars, produced, pendingScan,
                   recoveredJobs, outcome, procVars, faults, scanFaults,
                   ackedBy, persisted, batches>>

\* The polling loop where the sleeps of an idle loop are not followed.
DequeueEcgJob(t) == DequeueEcgJobWithin(EmptyPolls, t)

\* getQueueDepth(): the messages not delivered yet plus the pending ones.
QueueDepth == (Len(stream) - lastDelivered) + Cardinality(DOMAIN pel)

\* A loop that enters backlog mode at the exit threshold already.
BacklogEnteredEarly(mode, depth) ==
    IF ~mode /\ depth > BACKLOG_EXIT THEN TRUE ELSE mode

\* if (!backlogMode && queueDepth > 10) backlogMode = true
BacklogEntered(mode, depth) ==
    IF ~mode /\ depth > BACKLOG_ENTER THEN TRUE ELSE mode

\* if (backlogMode && queueDepth <= 5) backlogMode = false
BacklogExited(mode, depth) ==
    IF mode /\ depth <= BACKLOG_EXIT THEN FALSE ELSE mode

\* const queueDepth = await getQueueDepth() with reply `depth`, the check
\* for a backlog, and processJob(job) starts.
SampleDepth(t, depth) ==
    /\ Up(t) /\ pc[t] = "depth"
    /\ queueDepth' = [queueDepth EXCEPT ![t] = Some(depth)]
    /\ backlogMode' = [backlogMode EXCEPT ![t] = BacklogEntered(@, depth)]
    /\ pc' = [pc EXCEPT ![t] = "loadState"]
    /\ UNCHANGED <<libVars, queueVars, storeVars, produced, localVars, procVars, faults,
                   scanFaults, histVars>>

GetQueueDepth(t) == SampleDepth(t, QueueDepth)

(***************************************************************************)
(* processJob(job): one action per awaited call of the try block.          *)
(***************************************************************************)
Persist(h, id, what) == Marked(h, id, what)

\* const previousState = await loadPipelineState(sensorId)
LoadPipelineState(t) ==
    /\ Up(t) /\ pc[t] = "loadState"
    /\ previousState' = [previousState EXCEPT
                            ![t] = StoreGet(stateStore, Val(job[t]).sensorId)]
    /\ pc' = [pc EXCEPT ![t] = AfterStep("loadState")]
    /\ UNCHANGED <<libVars, loopVars, queueVars, storeVars, produced, job, metadata, result,
                   pendingScan, recoveredJobs, outcome, ackCalled, procVars,
                   faults, scanFaults, histVars>>

\* const metadata = (await loadMetadata(sensorId)) || {}
LoadMetadata(t) ==
    /\ Up(t) /\ pc[t] = "loadMeta"
    /\ metadata' = [metadata EXCEPT
                      ![t] = Some(LoadedMetadata(LoadMetadataReply(
                                      StoreGet(metaStore, Val(job[t]).sensorId))))]
    /\ pc' = [pc EXCEPT ![t] = AfterStep("loadMeta")]
    /\ UNCHANGED <<libVars, loopVars, queueVars, storeVars, produced, job, previousState, result,
                   pendingScan, recoveredJobs, outcome, ackCalled, procVars,
                   faults, scanFaults, histVars>>

\* const result = await processEcgChunk(samples, previousState, {...})
ProcessChunk(t) ==
    /\ Up(t) /\ pc[t] = "process"
    /\ LET j == Val(job[t])
       IN  result' = [result EXCEPT
                        ![t] = Some(ProcessEcgChunk(j.samples, previousState[t],
                                      ChunkMetadata(j, Val(metadata[t]))))]
    /\ pc' = [pc EXCEPT ![t] = AfterStep("process")]
    /\ UNCHANGED <<libVars, loopVars, queueVars, storeVars, produced, job, previousState, metadata,
                   pendingScan, recoveredJobs, outcome, ackCalled, procVars,
                   faults, scanFaults, histVars>>

\* A save that writes the state blob and the metadata in one transaction.
SaveStateWithMetadata(t) ==
    /\ Up(t) /\ pc[t] = "saveState"
    /\ LET j == Val(job[t])
       IN  /\ stateStore' = StoreSet(stateStore, j.sensorId, Val(result[t]).state)
           /\ metaStore' = StoreSet(metaStore, j.sensorId,
                                    JsonStringify(SavedMetadata(Val(result[t]))))
           /\ persisted' = Persist(persisted, j.messageId, "state")
    /\ pc' = [pc EXCEPT ![t] = AfterStep("saveState")]
    /\ UNCHANGED <<libVars, loopVars, queueVars, resultLog, published, produced,
                   localVars, procVars, faults, scanFaults, dequeuedBy,
                   ackedBy, batches>>

\* await savePipelineState(sensorId, result.state)
SavePipelineState(t) ==
    /\ Up(t) /\ pc[t] = "saveState"
    /\ LET j == Val(job[t])
       IN  /\ stateStore' = StoreSet(stateStore, j.sensorId, Val(result[t]).state)
           /\ persisted' = Persist(persisted, j.messageId, "state")
    /\ pc' = [pc EXCEPT ![t] = AfterStep("saveState")]
    /\ UNCHANGED <<libVars, loopVars, queueVars, metaStore, resultLog, published, produced,
                   localVars, procVars, faults, scanFaults, dequeuedBy,
                   ackedBy, batches>>

\* await saveMetadata(sensorId, {lastPeakSample, rrHistory})
SaveMetadata(t) ==
    /\ Up(t) /\ pc[t] = "saveMeta"
    /\ LET j == Val(job[t])
       IN  /\ metaStore' = StoreSet(metaStore, j.sensorId,
                                    JsonStringify(SavedMetadata(Val(result[t]))))
           /\ persisted' = Persist(persisted, j.messageId, "meta")
    /\ pc' = [pc EXCEPT ![t] = AfterStep("saveMeta")]
    /\ UNCHANGED <<libVars, loopVars, queueVars, stateStore, resultLog, published, produced,
                   localVars, procVars, faults, scanFaults, dequeuedBy,
                   ackedBy, batches>>

\* What one processed chunk contributed to the entity's interval sequence.
Batch(j, r) ==
    [chunkIndex |-> j.chunkIndex,
     globalPeaks |-> GlobalPeaks(j.chunkIndex, r.peaks),
     rrIntervals |-> r.rrIntervals]

\* await saveResult(sensorId, resultData)
SaveResult(t) ==
    /\ Up(t) /\ pc[t] = "saveResult"
    /\ LET j == Val(job[t])
       IN  /\ resultLog' = [resultLog EXCEPT
                              ![j.sensorId] = Append(@, ResultData(j, Val(result[t])))]
           /\ persisted' = Persist(persisted, j.messageId, "result")
           /\ batches' = [batches EXCEPT
                            ![j.sensorId] = Append(@, Batch(j, Val(result[t])))]
    /\ pc' = [pc EXCEPT ![t] = AfterStep("saveResult")]
    /\ UNCHANGED <<libVars, loopVars, queueVars, stateStore, metaStore, published, produced,
                   localVars, procVars, faults, scanFaults, dequeuedBy,
                   ackedBy>>

\* await publishResult({sensorId, ...resultData, samples, peakIndices})
PublishResult(t) ==
    /\ Up(t) /\ pc[t] = "publish"
    /\ LET j == Val(job[t])
       IN  published' = [published EXCEPT ![j.sensorId] = Append(@, j.chunkIndex)]
    /\ pc' = [pc EXCEPT ![t] = AfterStep("publish")]
    /\ UNCHANGED <<libVars, loopVars, queueVars, stateStore, metaStore, resultLog, produced,
                   localVars, procVars, faults, scanFaults, histVars>>

\* if (messageId) await ackEcgJob(messageId); then processJob returns.
AckEcgJob(t) ==
    /\ Up(t) /\ pc[t] = "ack"
    /\ AckCommand(Consumer(t), Val(job[t]).messageId)
    /\ ackCalled' = [ackCalled EXCEPT ![t] = TRUE]
    /\ outcome' = [outcome EXCEPT ![t] = "ok"]
    /\ pc' = [pc EXCEPT ![t] = AfterStep("ack")]
    /\ UNCHANGED <<libVars, loopVars, stream, groupCreated, lastDelivered, storeVars, produced,
                   job, previousState, metadata, result, pendingScan,
                   recoveredJobs, procVars, faults, scanFaults, dequeuedBy,
                   persisted, batches>>

\* An awaited call of the try block rejects (a Redis error reply, the engine
\* throws): the command has no effect and control passes to the catch block.
JobThrows(t) ==
    /\ Up(t) /\ pc[t] \in JobSteps
    /\ pel' = PelAfterCatch(pel, Val(job[t]).messageId)
    /\ outcome' = [outcome EXCEPT ![t] = "failed"]
    /\ pc' = [pc EXCEPT ![t] = AfterCatch]
    /\ UNCHANGED <<libVars, loopVars, stream, groupCreated, lastDelivered, storeVars, produced,
                   job, previousState, metadata, result, pendingScan,
                   recoveredJobs, ackCalled, procVars, scanFaults, histVars>>

JobFails(t) ==
    /\ MayFail
    /\ faults' = [faults EXCEPT ![t] = @ + 1]
    /\ JobThrows(t)

\* processJob has returned: recoverPendingMessages takes the next recovered
\* job (start-up), or main() checks whether the backlog is cleared and goes
\* round its while (running) loop.
JobReturns(t) ==
    /\ Up(t) /\ pc[t] = "jobEnd"
    /\ IF t \in Workers /\ running[Consumer(t)]
       THEN /\ pc' = [pc EXCEPT ![t] = "poll"]
            /\ EndJob(t)
            /\ backlogMode' = [backlogMode EXCEPT
                                 ![t] = BacklogExited(@, Val(queueDepth[t]))]
            /\ queueDepth' = [queueDepth EXCEPT ![t] = None]
            /\ waitTime' = [waitTime EXCEPT
                  ![t] = IF ~backlogMode'[t] /\ Val(queueDepth[t]) = 0
                         THEN Some(SHORT_WAIT_MS) ELSE None]
            /\ UNCHANGED <<recoveredJobs, running, pelCleanupInterval>>
       ELSE /\ AfterRecovery(t, recoveredJobs[t])
            /\ UNCHANGED <<loopVars, waitTime>>
    /\ UNCHANGED <<queueReply, probe, consecutiveEmptyPolls, queueVars, storeVars, produced, pendingScan, alive, faults,
                   scanFaults, histVars>>

(***************************************************************************)
(* The process as a whole.                                                 *)
(***************************************************************************)
\* Worker processes are interchangeable: the first one to stop on a signal
\* is called "w1", the first one to crash "w2".

\* shutdown(), the SIGINT / SIGTERM handler: it runs between two awaits of
\* main() and ends with process.exit(0).
Shutdown(w) ==
    /\ alive[w] = "up" /\ Cardinality(Halted) < MaxHalts
    /\ Halted = {} => w = "w1"
    /\ running' = [running EXCEPT ![w] = FALSE]
    /\ pelCleanupInterval' = [pelCleanupInterval EXCEPT ![w] = FALSE]
    /\ alive' = [alive EXCEPT ![w] = "exited"]
    /\ UNCHANGED <<libVars, loopVars, queueVars, storeVars, produced, pc, localVars, faults,
                   scanFaults, histVars>>

\* The process dies (kill -9, out of memory, an error outside processJob's
\* try block that rejects main()).
Crash(w) ==
    /\ alive[w] = "up" /\ Cardinality(Halted) < MaxHalts
    /\ Halted = {} => w = "w2"
    /\ alive' = [alive EXCEPT ![w] = "crashed"]
    /\ UNCHANGED <<libVars, loopVars, queueVars, storeVars, produced, pc, localVars, running,
                   pelCleanupInterval, faults, scanFaults, histVars>>

\* Time passes: every pending entry has been idle for TickMs longer.
Age(d, cap) ==
    /\ \E i \in DOMAIN pel : pel[i].idle < cap
    /\ pel' = [i \in DOMAIN pel |-> [pel[i] EXCEPT !.idle = Min(@ + d, cap)]]

Tick ==
    /\ Age(TickMs, MaxIdleTicks * TickMs)
    /\ UNCHANGED <<libVars, loopVars, stream, groupCreated, lastDelivered, storeVars, produced, pc,
                   localVars, procVars, faults, scanFaults, histVars>>

Next ==
    \/ \E e \in Sensors, samples \in PeakInputs : QueueEcgJob(e, samples)
    \/ \E t \in Tasks : InitializeConsumerGroup(t)
    \/ \E t \in Tasks : InitializeConsumerGroupFails(t)
    \/ \E t \in Tasks : RecoverScan(t)
    \/ \E t \in Tasks : RecoverClaim(t)
    \/ \E t \in Tasks : RecoverFail(t)
    \/ \E t \in Tasks : DequeueEcgJob(t)
    \/ \E t \in Tasks : GetQueueDepth(t)
    \/ \E t \in Tasks : LoadPipelineState(t)
    \/ \E t \in Tasks : LoadMetadata(t)
    \/ \E t \in Tasks : ProcessChunk(t)
    \/ \E t \in Tasks : SavePipelineState(t)
    \/ \E t \in Tasks : SaveMetadata(t)
    \/ \E t \in Tasks : SaveResult(t)
    \/ \E t \in Tasks : PublishResult(t)
    \/ \E t \in Tasks : AckEcgJob(t)
    \/ \E t \in Tasks : JobFails(t)
    \/ \E t \in Tasks : JobReturns(t)
    \/ \E w \in Workers : Shutdown(w)
    \/ \E w \in Workers : Crash(w)
    \/ Tick

Spec == Init /\ [][Next]_vars


(***************************************************************************)
(* The work queue on its own: consumers that call initializeConsumerGroup  *)
(* and then dequeueEcgJob, ackEcgJob (on any message id) and               *)
(* recoverPendingJobs in any order, while a producer enqueues and time     *)
(* passes.  pc is "call" between two calls of a consumer and "xclaim"      *)
(* inside the loop of recoverPendingJobs.                                  *)
(***************************************************************************)
QMaxIdleMs == 35000         \* idle times are tracked up to this value
QTickMs == 20000            \* time that passes in one step of the clock

QInitializeConsumerGroup(c) ==
    /\ pc[c] = "init"
    /\ LET reply == XGroupCreate(groupCreated, lastDelivered, pel)
       IN  /\ ~Rethrown(reply.error)
           /\ groupCreated' = reply.created
           /\ lastDelivered' = reply.lastDelivered
           /\ pel' = reply.pel
    /\ pc' = [pc EXCEPT ![c] = "call"]
    /\ UNCHANGED <<libVars, loopVars, stream, storeVars, produced, localVars,
                   procVars, faults, scanFaults, histVars>>

\* The reply, a job or null, is the caller's; dequeuedBy records it.
QDequeue(c) ==
    /\ pc[c] = "call" /\ groupCreated
    /\ DequeueCommand(c, XReadGroup(stream, lastDelivered, BATCH_SIZE))
    /\ UNCHANGED <<libVars, loopVars, stream, groupCreated, storeVars, produced, pc, localVars,
                   procVars, faults, scanFaults, ackedBy, persisted, batches>>

\* The message ids a consumer has been given, by dequeueEcgJob or by its
\* last recoverPendingJobs.
Given(c) ==
    {id \in DOMAIN dequeuedBy : c \in Range(dequeuedBy[id])}
        \cup {recoveredJobs[c][k].messageId : k \in DOMAIN recoveredJobs[c]}

\* A consumer acknowledges a message it has been given, once or again.
QAck(c, id) ==
    /\ pc[c] = "call" /\ groupCreated /\ id \in Given(c)
    /\ AckCommand(c, id)
    /\ UNCHANGED <<libVars, loopVars, stream, groupCreated, lastDelivered, storeVars, produced, pc,
                   localVars, procVars, faults, scanFaults, dequeuedBy,
                   persisted, batches>>

QRecoverScan(c) ==
    /\ pc[c] = "call" /\ groupCreated
    /\ LET pending == XPending(pel, XPENDING_COUNT)
       IN  /\ pendingScan' = [pendingScan EXCEPT ![c] = pending]
           /\ recoveredJobs' = [recoveredJobs EXCEPT ![c] = <<>>]
           /\ pc' = [pc EXCEPT ![c] = IF Len(pending) = 0 THEN "call" ELSE "xclaim"]
    /\ UNCHANGED <<libVars, loopVars, queueVars, storeVars, produced, job, previousState, metadata,
                   result, outcome, ackCalled, procVars, faults, scanFaults,
                   histVars>>

QRecoverClaimBelow(cap, c) ==
    /\ pc[c] = "xclaim" /\ Len(pendingScan[c]) > 0
    /\ LET entry == Head(pendingScan[c])
       IN  /\ ClaimCommandBelow(cap, c, entry)
           /\ recoveredJobs' = [recoveredJobs EXCEPT
                                  ![c] = RecoveredWith(recoveredJobs[c], entry)]
    /\ pendingScan' = [pendingScan EXCEPT ![c] = Tail(@)]
    /\ pc' = [pc EXCEPT ![c] = IF Len(pendingScan[c]) > 1 THEN "xclaim" ELSE "call"]
    /\ UNCHANGED <<libVars, loopVars, stream, groupCreated, lastDelivered, storeVars, produced, job,
                   previousState, metadata, result, outcome, ackCalled,
                   procVars, faults, scanFaults, histVars>>

QRecoverClaim(c) == QRecoverClaimBelow(MaxDeliveryCount, c)

\* XCLAIM throws: the per-entry catch logs it and the loop goes on.
QRecoverFail(c) ==
    /\ pc[c] = "xclaim" /\ Len(pendingScan[c]) > 0 /\ MayFail
    /\ scanFaults' = scanFaults + 1
    /\ pendingScan' = [pendingScan EXCEPT ![c] = Tail(@)]
    /\ pc' = [pc EXCEPT ![c] = IF Len(pendingScan[c]) > 1 THEN "xclaim" ELSE "call"]
    /\ UNCHANGED <<libVars, loopVars, queueVars, storeVars, produced, job, previousState, metadata,
                   result, recoveredJobs, outcome, ackCalled, procVars, faults,
                   histVars>>

QTick ==
    /\ Age(QTickMs, QMaxIdleMs)
    /\ UNCHANGED <<libVars, loopVars, stream, groupCreated, lastDelivered, storeVars, produced, pc,
                   localVars, procVars, faults, scanFaults, histVars>>

NextQueue ==
    \/ \E e \in Sensors, samples \in PeakInputs : QueueEcgJob(e, samples)
    \/ \E c \in Workers : QInitializeConsumerGroup(c)
    \/ \E c \in Workers : QDequeue(c)
    \/ \E c \in Workers, id \in 1..Len(stream) : QAck(c, id)
    \/ \E c \in Workers : QRecoverScan(c)
    \/ \E c \in Workers : QRecoverClaim(c)
    \/ \E c \in Workers : QRecoverFail(c)
    \/ QTick

SpecQueue == Init /\ [][NextQueue]_vars

(***************************************************************************)
(* Properties of the work queue, checked under SpecQueue.                  *)
(***************************************************************************)
Delivered == 1..lastDelivered
RecoveredIds(c) == {recoveredJobs[c][k].messageId : k \in DOMAIN recoveredJobs[c]}

EveryDeliveredPendingOrAcked ==
    \A id \in Delivered : id \in DOMAIN pel \/ MarkedFor(ackedBy, id) # {}

OnlyAckRemoves ==
    \A id \in DOMAIN pel :
        id \notin DOMAIN pel' => MarkedFor(ackedBy', id) # MarkedFor(ackedBy, id)

\* C1: a message handed out by dequeueEcgJob or reclaimed by
\* recoverPendingJobs is in the group's pending set until ackEcgJob is called
\* with its id; a step takes an entry out of the pending set only if it is
\* such a call, whatever the interleaving of the consumers' calls.
C1_PendingUntilAcked ==
    /\ []EveryDeliveredPendingOrAcked
    /\ [][OnlyAckRemoves]_vars

\* A reclaimed message is still pending while another one has been acked.
C1_Witness ==
    /\ \E id \in DOMAIN pel : pel[id].deliveries >= 2
    /\ \E id \in Delivered : id \notin DOMAIN pel /\ MarkedFor(ackedBy, id) # {}

\* C3: dequeueEcgJob returns no message twice, to the same or to another
\* consumer, and every pending message has one owner, a consumer of the
\* group.
C3_DequeuedAtMostOnce ==
    /\ \A id \in DOMAIN dequeuedBy : Len(dequeuedBy[id]) <= 1
    /\ \A id \in DOMAIN pel : pel[id].consumer \in Workers
    /\ DOMAIN pel \subseteq Delivered /\ lastDelivered <= Len(stream)

\* Two workers polled the group and each got its own message.
C3_Witness ==
    /\ lastDelivered = 2
    /\ Len(dequeuedBy[1]) = 1 /\ Len(dequeuedBy[2]) = 1
    /\ dequeuedBy[1] # dequeuedBy[2]

\* A step of consumer c inside recoverPendingJobs.
RecoverStepOf(c) == pendingScan'[c] # pendingScan[c]

Fresh(c, id) ==
    \/ pel[id].idle < IDLE_THRESHOLD_MS
    \/ /\ pc[c] = "xclaim"
       /\ Head(pendingScan[c]).messageId = id
       /\ Head(pendingScan[c]).idleTime < IDLE_THRESHOLD_MS

RecoverLeavesFresh ==
    \A c \in Workers : RecoverStepOf(c) =>
        \A id \in DOMAIN pel : Fresh(c, id) =>
            /\ id \in DOMAIN pel' /\ pel'[id] = pel[id]
            /\ id \in RecoveredIds(c)' => id \in RecoveredIds(c)

\* C5: recoverPendingJobs leaves a pending entry that has been idle for less
\* than 30000 ms as it is (owner, idle time, delivery count) and does not
\* return it.
C5_FreshEntriesUntouched == [][RecoverLeavesFresh]_vars

\* A recovery reclaimed one message and passed over one idle for 20000 ms.
C5_Witness ==
    \E c \in Workers :
        /\ pc[c] = "call" /\ RecoveredIds(c) # {}
        /\ \E id \in RecoveredIds(c) : id \in DOMAIN pel /\ pel[id].consumer = c
        /\ \E id \in DOMAIN pel :
              /\ pel[id].consumer # c /\ pel[id].deliveries = 1
              /\ pel[id].idle > 0 /\ pel[id].idle < IDLE_THRESHOLD_MS

AckOfNotPending ==
    \A id \in 1..Len(stream) :
        (MarkedFor(ackedBy', id) # MarkedFor(ackedBy, id) /\ id \notin DOMAIN pel)
            => UNCHANGED <<queueVars, storeVars>>

AckTwiceIsAckOnce ==
    \A id \in 1..Len(stream) :
        /\ XAck(XAck(pel, id), id) = XAck(pel, id)
        /\ id \notin DOMAIN pel => XAck(pel, id) = pel

\* C10: ackEcgJob on an id that is not pending (acknowledged before) changes
\* neither the stream nor the pending set nor any entity's stored data, and
\* acknowledging twice leaves the pending set as acknowledging once does.
C10_AckIdempotent ==
    /\ []AckTwiceIsAckOnce
    /\ [][AckOfNotPending]_vars

\* A message acknowledged by both consumers, next to one that is pending.
C10_Witness ==
    /\ \E id \in Delivered : Cardinality(MarkedFor(ackedBy, id)) = 2
    /\ DOMAIN pel # {}

(***************************************************************************)
(* Properties of the worker, checked under Spec.                           *)
(***************************************************************************)
AllSaved == {"state", "meta", "result"}
Saved(id) == MarkedFor(persisted, id)
Acked(id) == MarkedFor(ackedBy, id) # {}
Returned(t) == pc[t] = "jobEnd"
Failed(t) == outcome[t] = "failed"
Interrupted(t) == alive[Consumer(t)] # "up" /\ IsSome(job[t]) /\ pc[t] \in JobSteps

LoopGoesOn ==
    \A t \in Tasks : (Returned(t) /\ Failed(t) /\ pc'[t] # pc[t]) =>
        /\ pc'[t] \in {"poll", "loadState"}
        /\ alive'[Consumer(t)] = "up"
        /\ running[Consumer(t)] => running'[Consumer(t)]

FailureIsCaught ==
    \A t \in Tasks : faults[t] > 0 =>
        /\ pc[t] \in {"poll", "depth", "jobEnd"} \cup JobSteps
        /\ Failed(t) => Returned(t)
        /\ (Returned(t) /\ Up(t)) => ENABLED JobReturns(t)

\* C7: a throw inside processJob is caught there: the worker is back in its
\* loop, which can take its next step, and that step is the next dequeue (or
\* the next recovered job), with the process up and running not cleared.
C7_FailureDoesNotStopLoop ==
    /\ []FailureIsCaught
    /\ [][LoopGoesOn]_vars

\* A worker whose earlier job threw has processed and acknowledged the next.
C7_Witness ==
    \E t \in Tasks :
        /\ faults[t] > 0 /\ Returned(t) /\ ~Failed(t)
        /\ ackCalled[t]

\* C9 as stated: a worker that has exited on a shutdown signal has its
\* running flag cleared and its recovery timer cancelled, and no job of it
\* was left between its state load and its acknowledgment.
C9_ShutdownFinishesJob ==
    \A t \in Tasks : alive[Consumer(t)] = "exited" =>
        /\ ~running[Consumer(t)]
        /\ ~pelCleanupInterval[Consumer(t)]
        /\ ~InFlight(pc[t])

StartingUp(t) == pc[t] \in {"init", "xpending", "xclaim"}
HasDequeued(t) ==
    \E id \in DOMAIN dequeuedBy : Consumer(t) \in Range(dequeuedBy[id])

\* t ranges over the main() of each worker.
StartupOrder ==
    \A t \in Workers :
        /\ pc[t] # "init" => groupCreated
        /\ running[Consumer(t)] => pelCleanupInterval[Consumer(t)]
        /\ (Up(t) /\ ~running[Consumer(t)]) =>
              pc[t] \in {"init", "xpending", "xclaim", "jobEnd"} \cup JobSteps
        /\ HasDequeued(t) =>
              /\ ~StartingUp(t)
              /\ Up(t) => running[Consumer(t)]
        /\ pc[t] \in {"poll", "depth"} =>
              recoveredJobs[t] = <<>> /\ pendingScan[t] = <<>>

StartupSteps ==
    \A t \in Workers :
        /\ pc'[t] = "init" => pc[t] = "init"
        /\ pc'[t] = "xpending" => pc[t] \in {"init", "xpending"}
        /\ (pc[t] = "init" /\ pc'[t] # "init") => pc'[t] = "xpending"
        /\ (StartingUp(t) /\ pc'[t] = "poll") =>
              recoveredJobs'[t] = <<>> /\ pendingScan'[t] = <<>>
        /\ (~running[Consumer(t)] /\ running'[Consumer(t)]) =>
              pelCleanupInterval'[Consumer(t)] /\ pc'[t] = "poll"

\* C12: a worker creates the consumer group first, then calls
\* recoverPendingJobs, once, and processes every job it returned; only then
\* does it set running and poll, and it dequeues nothing before.  The
\* recovery timer is armed when running is set.
C12_StartupOrder ==
    /\ []StartupOrder
    /\ [][StartupSteps]_vars

\* A worker has acknowledged a message it recovered at start-up from another
\* consumer and has then dequeued its first message.
C12_Witness ==
    \E t \in Tasks :
        /\ pc[t] = "depth" /\ pelCleanupInterval[Consumer(t)]
        /\ \E id \in DOMAIN ackedBy :
              /\ Consumer(t) \in ackedBy[id]
              /\ Consumer(t) \notin Range(NotedFor(dequeuedBy, id))

SensorOf(t) == Val(job[t]).sensorId
StepFromTo(t, from, to) == pc[t] = from /\ pc'[t] = to
OthersKept(store, e) == \A o \in Sensors \ {e} : store'[o] = store[o]
EverSaved(e, what) ==
    \E id \in DOMAIN persisted : stream[id].sensorId = e /\ what \in persisted[id]

NothingSavedIsNull ==
    \A e \in Sensors :
        /\ ~EverSaved(e, "state") => StoreGet(stateStore, e) = None
        /\ ~EverSaved(e, "meta") => LoadMetadataReply(StoreGet(metaStore, e)) = None

LatestWriteWins ==
    /\ \A t \in Tasks :
          /\ StepFromTo(t, "saveState", "saveMeta") =>
                /\ StoreGet(stateStore', SensorOf(t)) = Some(Val(result[t]).state)
                /\ OthersKept(stateStore, SensorOf(t)) /\ metaStore' = metaStore
          /\ StepFromTo(t, "saveMeta", "saveResult") =>
                /\ LoadMetadataReply(StoreGet(metaStore', SensorOf(t)))
                      = Some(SavedMetadata(Val(result[t])))
                /\ OthersKept(metaStore, SensorOf(t)) /\ stateStore' = stateStore
          /\ StepFromTo(t, "loadState", "loadMeta") =>
                previousState'[t] = StoreGet(stateStore, SensorOf(t))
          /\ StepFromTo(t, "loadMeta", "process") =>
                metadata'[t] = Some(LoadedMetadata(
                                 LoadMetadataReply(StoreGet(metaStore, SensorOf(t)))))
    /\ (\A t \in Tasks : ~StepFromTo(t, "saveState", "saveMeta")) =>
          stateStore' = stateStore
    /\ (\A t \in Tasks : ~StepFromTo(t, "saveMeta", "saveResult")) =>
          metaStore' = metaStore

\* C13: loadPipelineState / loadMetadata return null for a sensor nothing
\* was saved for and otherwise what the latest savePipelineState /
\* saveMetadata for that sensor was given; a save changes the key of its own
\* sensor only, and nothing but a save changes a key.
C13_StoreRoundTrip ==
    /\ []NothingSavedIsNull
    /\ [][LatestWriteWins]_vars

\* A worker has loaded, for the second chunk of a sensor, the state blob and
\* the metadata saved for the first, while nothing is stored for the other
\* sensor.
C13_Witness ==
    \E t \in Tasks :
        /\ pc[t] = "process"
        /\ IsSome(previousState[t])
        /\ previousState[t] = StoreGet(stateStore, SensorOf(t))
        /\ Val(metadata[t]).lastPeakSample = Some(50)
        /\ \E o \in Sensors \ {SensorOf(t)} : StoreGet(stateStore, o) = None

(***************************************************************************)
(* A worker starting on a long pending list: consumer "w2" was handed the  *)
(* first messages of the stream, acknowledged none of them and died; "w1"  *)
(* starts (main()) and no time passes while it works.                      *)
(***************************************************************************)
PelExtra == 1               \* pending entries: XPENDING_COUNT -+ PelExtra
PelSizes == (XPENDING_COUNT - PelExtra)..(XPENDING_COUNT + PelExtra)
PelIdleTimes == {QTickMs, IDLE_THRESHOLD_MS, QMaxIdleMs}

InitPel ==
    \E n \in PelSizes, idle \in PelIdleTimes :
        /\ stream = [i \in 1..(n + 1) |-> JobData("s1", i - 1, <<50>>)]
        /\ groupCreated = TRUE
        /\ lastDelivered = n
        /\ pel = [i \in 1..n |-> [consumer |-> "w2", idle |-> idle, deliveries |-> 1]]
        /\ stateStore = [e \in Sensors |-> None]
        /\ metaStore = [e \in Sensors |-> None]
        /\ resultLog = [e \in Sensors |-> <<>>]
        /\ published = [e \in Sensors |-> <<>>]
        /\ produced = [e \in Sensors |-> IF e = "s1" THEN n + 1 ELSE 0]
        /\ pc = [t \in Tasks |-> IF t = "w2" THEN "poll" ELSE StartOf(t)]
        /\ job = [t \in Tasks |-> None]
        /\ previousState = [t \in Tasks |-> None]
        /\ metadata = [t \in Tasks |-> None]
        /\ result = [t \in Tasks |-> None]
        /\ pendingScan = [t \in Tasks |-> <<>>]
        /\ recoveredJobs = [t \in Tasks |-> <<>>]
        /\ outcome = [t \in Tasks |-> "none"]
        /\ ackCalled = [t \in Tasks |-> FALSE]
        /\ alive = [w \in Workers |-> IF w = "w1" THEN "up" ELSE "crashed"]
        /\ running = [w \in Workers |-> w = "w2"]
        /\ pelCleanupInterval = [w \in Workers |-> w = "w2"]
        /\ backlogMode = [t \in Tasks |-> FALSE]
        /\ queueDepth = [t \in Tasks |-> None]
        /\ faults = [t \in Tasks |-> IF t = "w2" THEN n ELSE 0]
        /\ scanFaults = 0
        /\ dequeuedBy = [i \in 1..n |-> <<"w2">>]
        /\ ackedBy = <<>>
        /\ persisted = <<>>
        /\ batches = [e \in Sensors |-> <<>>]
    /\ queueReply = <<>>
    /\ probe = None
    /\ consecutiveEmptyPolls = [t \in Tasks |-> 0]
    /\ waitTime = [t \in Tasks |-> None]

NextPel ==
    \/ \E t \in Tasks : InitializeConsumerGroup(t)
    \/ \E t \in Tasks : RecoverScan(t)
    \/ \E t \in Tasks : RecoverClaim(t)
    \/ \E t \in Tasks : DequeueEcgJob(t)
    \/ \E t \in Tasks : GetQueueDepth(t)
    \/ \E t \in Tasks : LoadPipelineState(t)
    \/ \E t \in Tasks : LoadMetadata(t)
    \/ \E t \in Tasks : ProcessChunk(t)
    \/ \E t \in Tasks : SavePipelineState(t)
    \/ \E t \in Tasks : SaveMetadata(t)
    \/ \E t \in Tasks : SaveResult(t)
    \/ \E t \in Tasks : PublishResult(t)
    \/ \E t \in Tasks : AckEcgJob(t)
    \/ \E t \in Tasks : JobReturns(t)

SpecPel == InitPel /\ [][NextPel]_vars

RecoveryDone(t) == Up(t) /\ pc[t] \notin {"init", "xpending", "xclaim"}

StitchChunks == 3           \* chunks the producer enqueues
StitchInputs == {<<>>, <<0>>, <<50>>, <<100, 300>>}

StitchProduce(samples) ==
    /\ Len(stream) < StitchChunks
    /\ Enqueue("s1", samples)

StitchTurn(t) ==
    /\ IsSome(job[t])
    /\ Val(job[t]).chunkIndex = Len(resultLog[Val(job[t]).sensorId])
    /\ \A u \in Tasks \ {t} : ~InFlight(pc[u])

NextStitch ==
    \/ \E samples \in StitchInputs : StitchProduce(samples)
    \/ \E t \in Tasks : InitializeConsumerGroup(t)
    \/ \E t \in Tasks : RecoverScan(t)
    \/ \E t \in Tasks : RecoverClaim(t)
    \/ \E t \in Tasks : DequeueEcgJob(t)
    \/ \E t \in Tasks : GetQueueDepth(t)
    \/ \E t \in Tasks : StitchTurn(t) /\ LoadPipelineState(t)
    \/ \E t \in Tasks : LoadMetadata(t)
    \/ \E t \in Tasks : ProcessChunk(t)
    \/ \E t \in Tasks : SavePipelineState(t)
    \/ \E t \in Tasks : SaveMetadata(t)
    \/ \E t \in Tasks : SaveResult(t)
    \/ \E t \in Tasks : PublishResult(t)
    \/ \E t \in Tasks : AckEcgJob(t)
    \/ \E t \in Tasks : JobReturns(t)

SpecStitch == Init /\ [][NextStitch]_vars

RECURSIVE Flatten(_)
Flatten(ss) == IF Len(ss) = 0 THEN <<>> ELSE Head(ss) \o Flatten(Tail(ss))

BatchIntervals(e) == Flatten([k \in 1..Len(batches[e]) |-> batches[e][k].rrIntervals])
GlobalEvents(e) == Flatten([k \in 1..Len(batches[e]) |-> batches[e][k].globalPeaks])

\* C8 as stated: for chunks 0..n of an entity processed in order, one worker
\* at a time, the per-chunk interval batches put end to end are the
\* consecutive differences of the entity's global peak positions.
C8_ChunkedEqualsContinuous ==
    \A e \in Sensors : BatchIntervals(e) = RRIntervals(GlobalEvents(e), SAMPLE_RATE)

(***************************************************************************)
(* The polling loop under any queue depth: one worker polls a stream that  *)
(* a producer fills, and getQueueDepth, which also counts what other       *)
(* producers and consumers of the deployment have in the queue, may reply  *)
(* any depth.                                                              *)
(***************************************************************************)
BacklogMsgs == 3            \* messages the producer enqueues
DepthSamples == {0, 4, 5, 6, 8, 9, 10, 11}
BacklogTasks == {"w1"}

BacklogProduce ==
    /\ Len(stream) < BacklogMsgs
    /\ Enqueue("s1", <<50>>)

BacklogSample(t) == \E depth \in DepthSamples : SampleDepth(t, depth)

NextBacklog ==
    \/ BacklogProduce
    \/ \E t \in BacklogTasks : InitializeConsumerGroup(t)
    \/ \E t \in BacklogTasks : RecoverScan(t)
    \/ \E t \in BacklogTasks : DequeueEcgJob(t)
    \/ \E t \in BacklogTasks : BacklogSample(t)
    \/ \E t \in BacklogTasks : LoadPipelineState(t)
    \/ \E t \in BacklogTasks : LoadMetadata(t)
    \/ \E t \in BacklogTasks : ProcessChunk(t)
    \/ \E t \in BacklogTasks : SavePipelineState(t)
    \/ \E t \in BacklogTasks : SaveMetadata(t)
    \/ \E t \in BacklogTasks : SaveResult(t)
    \/ \E t \in BacklogTasks : PublishResult(t)
    \/ \E t \in BacklogTasks : AckEcgJob(t)
    \/ \E t \in BacklogTasks : JobReturns(t)

SpecBacklog == Init /\ [][NextBacklog]_vars

\* backlogMode after the loop iterations that sampled the depths of `depths`.
RECURSIVE ModesAfter(_, _)
ModesAfter(mode, depths) ==
    IF Len(depths) = 0 THEN <<>>
    ELSE LET m == BacklogExited(BacklogEntered(mode, Head(depths)), Head(depths))
         IN  <<m>> \o ModesAfter(m, Tail(depths))

Sampled(t) == IF IsSome(queueDepth[t]) THEN {Val(queueDepth[t])} ELSE {}

BacklogHysteresis ==
    \A t \in Tasks :
        /\ (backlogMode'[t] /\ ~backlogMode[t]) =>
              \E d \in Sampled(t)' : d > BACKLOG_ENTER
        /\ (~backlogMode'[t] /\ backlogMode[t]) =>
              \E d \in Sampled(t) : d <= BACKLOG_EXIT
        /\ (\E d \in Sampled(t) \cup Sampled(t)' :
                d > BACKLOG_EXIT /\ d <= BACKLOG_ENTER) =>
              backlogMode'[t] = backlogMode[t]

\* C11: the loop's backlog mode goes on only in an iteration that sampled a
\* depth above 10 and off only in one that sampled a depth of 5 or less; an
\* iteration that sampled 6..10 leaves it as it is.  Over the samples
\* 11, 9, 8, 5, 4 the mode is on after 11, 9 and 8 and off after 5 and 4.
C11_BacklogHysteresis ==
    /\ [](ModesAfter(FALSE, <<11, 9, 8, 5, 4>>) = <<TRUE, TRUE, TRUE, FALSE, FALSE>>)
    /\ [][BacklogHysteresis]_vars

\* Backlog mode is on, entered in an earlier iteration, and the depth just
\* sampled is 8.
C11_Witness ==
    \E t \in Tasks :
        /\ backlogMode[t] /\ queueDepth[t] = Some(8)
        /\ lastDelivered >= 2

(***************************************************************************)
(* processEcgChunk over its inputs: one worker takes up to ChunkMsgs       *)
(* consecutive chunks of sensor "s1", either from the start of the signal  *)
(* or ChunkLate chunks into it, with what the earlier chunks left in the   *)
(* store.                                                                  *)
(***************************************************************************)
ChunkMsgs == 2              \* chunks the producer enqueues
ChunkLate == 20             \* chunks processed before a late start
ChunkInputs == {<<>>, <<0>>, <<50>>, <<100>>, <<100, 300>>, <<0, 180, 359>>}
ChunkHistories == {13, 14, 15}   \* intervals left by the earlier chunks
ChunkTasks == {"w1"}

\* What ChunkLate chunks with a peak at sample 160 each, the first ones
\* skipped, leave: the last peak and n intervals of 360 samples.
LateMetadata(n) ==
    [lastPeakSample |-> Some((ChunkLate - 1) * CHUNK_SIZE + 160),
     rrHistory |-> [i \in 1..n |-> CHUNK_SIZE * UnitsPerSample]]

InitChunk ==
    /\ stream = <<>>
    /\ groupCreated = FALSE
    /\ lastDelivered = 0
    /\ pel = <<>>
    /\ \/ /\ produced = [e \in Sensors |-> 0]
          /\ stateStore = [e \in Sensors |-> None]
          /\ metaStore = [e \in Sensors |-> None]
       \/ \E n \in ChunkHistories :
          /\ produced = [e \in Sensors |-> IF e = "s1" THEN ChunkLate ELSE 0]
          /\ stateStore = [e \in Sensors |->
                             IF e = "s1"
                             THEN Some([i \in 1..ChunkLate |-> i - 1])
                             ELSE None]
          /\ metaStore = [e \in Sensors |->
                            IF e = "s1"
                            THEN Some(JsonStringify(LateMetadata(n)))
                            ELSE None]
    /\ resultLog = [e \in Sensors |-> <<>>]
    /\ published = [e \in Sensors |-> <<>>]
    /\ pc = [t \in Tasks |-> StartOf(t)]
    /\ job = [t \in Tasks |-> None]
    /\ previousState = [t \in Tasks |-> None]
    /\ metadata = [t \in Tasks |-> None]
    /\ result = [t \in Tasks |-> None]
    /\ pendingScan = [t \in Tasks |-> <<>>]
    /\ recoveredJobs = [t \in Tasks |-> <<>>]
    /\ outcome = [t \in Tasks |-> "none"]
    /\ ackCalled = [t \in Tasks |-> FALSE]
    /\ alive = [w \in Workers |-> "up"]
    /\ running = [w \in Workers |-> FALSE]
    /\ pelCleanupInterval = [w \in Workers |-> FALSE]
    /\ backlogMode = [t \in Tasks |-> FALSE]
    /\ queueDepth = [t \in Tasks |-> None]
    /\ faults = [t \in Tasks |-> 0]
    /\ scanFaults = 0
    /\ dequeuedBy = <<>>
    /\ ackedBy = <<>>
    /\ persisted = <<>>
    /\ batches = [e \in Sensors |-> <<>>]
    /\ queueReply = <<>>
    /\ probe = None
    /\ consecutiveEmptyPolls = [t \in Tasks |-> 0]
    /\ waitTime = [t \in Tasks |-> None]

ChunkProduce(samples) ==
    /\ Len(stream) < ChunkMsgs
    /\ Enqueue("s1", samples)

NextChunk ==
    \/ \E samples \in ChunkInputs : ChunkProduce(samples)
    \/ \E t \in ChunkTasks : InitializeConsumerGroup(t)
    \/ \E t \in ChunkTasks : RecoverScan(t)
    \/ \E t \in ChunkTasks : DequeueEcgJob(t)
    \/ \E t \in ChunkTasks : GetQueueDepth(t)
    \/ \E t \in ChunkTasks : LoadPipelineState(t)
    \/ \E t \in ChunkTasks : LoadMetadata(t)
    \/ \E t \in ChunkTasks : ProcessChunk(t)
    \/ \E t \in ChunkTasks : SavePipelineState(t)
    \/ \E t \in ChunkTasks : SaveMetadata(t)
    \/ \E t \in ChunkTasks : SaveResult(t)
    \/ \E t \in ChunkTasks : PublishResult(t)
    \/ \E t \in ChunkTasks : AckEcgJob(t)
    \/ \E t \in ChunkTasks : JobReturns(t)

SpecChunk == InitChunk /\ [][NextChunk]_vars

\* The tasks whose processEcgChunk call has returned.
Processed == {t \in Tasks : IsSome(result[t])}

\* An interval of d samples, as RRIntervals holds it.
SamplesToInterval(d) == d * UnitsPerSample

\* C14 as stated: whenever the metadata loaded for the chunk has a non-null
\* lastPeakSample (0 included) and the chunk has a peak, the first interval
\* of the batch is (first global peak of the chunk - lastPeakSample).
C14_PriorPeakPrepended ==
    \A t \in Processed :
        LET j == Val(job[t])
            md == Val(metadata[t])
            r == Val(result[t])
        IN  (IsSome(md.lastPeakSample) /\ Len(j.samples) > 0) =>
               /\ Len(r.rrIntervals) = Len(j.samples)
               /\ r.rrIntervals[1] =
                     SamplesToInterval(j.chunkIndex * CHUNK_SIZE + j.samples[1]
                                       - Val(md.lastPeakSample))

\* The tasks whose job has saved its metadata and not yet returned.
MetadataSaved == {t \in Processed : pc[t] \in {"saveResult", "publish", "ack"}}

StoredMetadata(e) == JsonParse(Val(StoreGet(metaStore, e)))

\* C15 as stated: after a chunk is processed the stored lastPeakSample is the
\* global position of the chunk's last peak, or, when the chunk has no peak,
\* exactly the value that was stored before.
C15_StoredLastPeak ==
    \A t \in MetadataSaved :
        LET j == Val(job[t])
            md == Val(metadata[t])
        IN  StoredMetadata(j.sensorId).lastPeakSample =
               IF Len(j.samples) > 0
               THEN Some(j.chunkIndex * CHUNK_SIZE + j.samples[Len(j.samples)])
               ELSE md.lastPeakSample

\* The position of the chunk's i-th peak as the outputs of processEcgChunk
\* give it: the returned lastPeakSample less the intervals that follow the
\* peak in the batch.
EventPosition(t, i) ==
    LET r == Val(result[t])
        n == Len(Val(job[t]).samples)
        m == Len(r.rrIntervals)
    IN  Val(r.lastPeakSample)
           - Sum(SubSeq(r.rrIntervals, m - (n - i) + 1, m)) \div UnitsPerSample

\* C16: for every processed chunk and every peak of it, the global position
\* processEcgChunk works with is chunkIndex * CHUNK_SIZE + local position.
C16_GlobalIndexExact ==
    \A t \in Processed :
        LET j == Val(job[t])
        IN  \A i \in 1..Len(j.samples) :
               EventPosition(t, i) = j.chunkIndex * CHUNK_SIZE + j.samples[i]

\* A chunk far into the signal with three peaks has been processed.
C16_Witness ==
    \E t \in Processed :
        /\ Val(job[t]).chunkIndex > ChunkLate
        /\ Len(Val(job[t]).samples) = 3

\* The stored window is the newest entries of `whole`, at most RR_HISTORY_LEN.
NewestOf(kept, whole) ==
    /\ Len(kept) = Min(RR_HISTORY_LEN, Len(whole))
    /\ \A i \in 1..Len(kept) : kept[i] = whole[Len(whole) - Len(kept) + i]

\* C17: a stored rrHistory never has more than 15 entries, and after a chunk
\* is processed it is the last min(15, n) entries of the prior window
\* followed by the batch's raw intervals.
C17_WindowBounded ==
    /\ \A e \in Sensors :
          IsSome(metaStore[e]) => Len(StoredMetadata(e).rrHistory) <= RR_HISTORY_LEN
    /\ \A t \in MetadataSaved :
          NewestOf(StoredMetadata(Val(job[t]).sensorId).rrHistory,
                   Val(metadata[t]).rrHistory \o Val(result[t]).rrIntervals)

\* A full prior window and a batch of three intervals: three are evicted.
C17_Witness ==
    \E t \in MetadataSaved :
        /\ Len(Val(metadata[t]).rrHistory) = RR_HISTORY_LEN
        /\ Len(Val(result[t]).rrIntervals) = 3

\* The events the rate of a chunk is computed from: the carried lastPeakSample,
\* if any, and the chunk's peaks.
StitchedCount(t) ==
    (IF IsSome(Val(metadata[t]).lastPeakSample) THEN 1 ELSE 0)
       + Len(Val(job[t]).samples)

RateAlerts == {"bradycardia", "tachycardia"}
AlertTypes(r) == {r.arrhythmia.alerts[i].type : i \in 1..Len(r.arrhythmia.alerts)}

\* C18: whenever the carried last peak (if any) and the chunk's peaks are
\* fewer than two events, the reported bpm is the number 0 and neither a
\* bradycardia nor a tachycardia alert is raised.
C18_NoRateBelowTwoEvents ==
    \A t \in Processed :
        StitchedCount(t) < 2 =>
           /\ Val(result[t]).bpm = Finite(0)
           /\ AlertTypes(Val(result[t])) \cap RateAlerts = {}

\* A chunk with one peak and nothing carried, and a chunk without a peak
\* after a carried one, have been processed and saved as results.
C18_Witness ==
    /\ \E t \in Processed :
          /\ StitchedCount(t) = 1 /\ Len(Val(job[t]).samples) = 0
          /\ pc[t] = "publish"
    /\ \E e \in Sensors :
          /\ Len(resultLog[e]) = 2
          /\ resultLog[e][1].peaks = 1 /\ resultLog[e][1].bpm = Finite(0)

\* Chunk 0 of the stream had its only peak at local sample 50.
AfterPeakAt50 == Len(stream) >= 1 /\ stream[1] = JobData("s1", 0, <<50>>)

\* C19: at 360 samples per chunk and 360 Hz, chunk 0 with local peaks [50]
\* and no prior metadata gives bpm 0 and stores lastPeakSample 50; chunk 1
\* with local peaks [100] then gives the global peak 460, the single
\* interval of 410 samples, a bpm below 60, a bradycardia warning, and
\* stores lastPeakSample 460.
C19_TwoChunkExample ==
    \A t \in Processed :
        LET j == Val(job[t])
            r == Val(result[t])
            stored == StoredMetadata(j.sensorId).lastPeakSample
        IN  /\ (/\ j.chunkIndex = 0 /\ j.samples = <<50>>
                /\ Val(metadata[t]) = EmptyMetadata) =>
                  /\ r.bpm = Finite(0)
                  /\ r.lastPeakSample = Some(50)
                  /\ t \in MetadataSaved => stored = Some(50)
            /\ (/\ j.chunkIndex = 1 /\ j.samples = <<100>>
                /\ AfterPeakAt50) =>
                  /\ EventPosition(t, 1) = 460
                  /\ r.rrIntervals = <<SamplesToInterval(410)>>
                  /\ Above(r.bpm, 0) /\ Below(r.bpm, BRADYCARDIA_BPM)
                  /\ \E i \in 1..Len(r.arrhythmia.alerts) :
                        r.arrhythmia.alerts[i] = Alert("bradycardia", "warning")
                  /\ r.lastPeakSample = Some(460)
                  /\ t \in MetadataSaved => stored = Some(460)

\* Both chunks of the example have been processed and their results saved.
C19_Witness ==
    /\ AfterPeakAt50
    /\ Len(resultLog["s1"]) = 2
    /\ resultLog["s1"][1].bpm = Finite(0)
    /\ resultLog["s1"][2].chunkIndex = 1
    /\ resultLog["s1"][2].bpm = Finite(53)
    /\ \E t \in MetadataSaved :
          /\ Val(job[t]).samples = <<100>>
          /\ StoredMetadata("s1").lastPeakSample = Some(460)

(***************************************************************************)
(* One worker process at a time: a second process is started only after    *)
(* the first has stopped or died.  Jobs may fail, and the process started  *)
(* later recovers what the earlier one left pending.                       *)
(***************************************************************************)
Started(w) == alive[w] = "up" /\ pc[w] # "init"
Solo(t) == \A u \in Workers \ {Consumer(t)} : ~Started(u)

NextSolo ==
    \/ \E samples \in PeakInputs : QueueEcgJob("s1", samples)
    \/ \E t \in Tasks : Solo(t) /\ InitializeConsumerGroup(t)
    \/ \E t \in Tasks : Solo(t) /\ RecoverScan(t)
    \/ \E t \in Tasks : Solo(t) /\ RecoverClaim(t)
    \/ \E t \in Tasks : Solo(t) /\ DequeueEcgJob(t)
    \/ \E t \in Tasks : Solo(t) /\ GetQueueDepth(t)
    \/ \E t \in Tasks : Solo(t) /\ LoadPipelineState(t)
    \/ \E t \in Tasks : Solo(t) /\ LoadMetadata(t)
    \/ \E t \in Tasks : Solo(t) /\ ProcessChunk(t)
    \/ \E t \in Tasks : Solo(t) /\ SavePipelineState(t)
    \/ \E t \in Tasks : Solo(t) /\ SaveMetadata(t)
    \/ \E t \in Tasks : Solo(t) /\ SaveResult(t)
    \/ \E t \in Tasks : Solo(t) /\ PublishResult(t)
    \/ \E t \in Tasks : Solo(t) /\ AckEcgJob(t)
    \/ \E t \in Tasks : Solo(t) /\ JobFails(t)
    \/ \E t \in Tasks : Solo(t) /\ JobReturns(t)
    \/ \E w \in Workers : Started(w) /\ Shutdown(w)
    \/ \E w \in Workers : Started(w) /\ Crash(w)
    \/ Tick

SpecSolo == Init /\ [][NextSolo]_vars

\* At most one worker process is running.
OneWorkerActive == Cardinality({w \in Workers : Started(w)}) <= 1

\* A save of the metadata does not replace a lastPeakSample by a smaller one.
LastPeakNotLowered ==
    \A e \in Sensors :
        (IsSome(metaStore[e]) /\ IsSome(metaStore'[e])) =>
           LET before == StoredMetadata(e).lastPeakSample
               after == StoredMetadata(e)'.lastPeakSample
           IN  (IsSome(before) /\ IsSome(after)) => Val(after) >= Val(before)

\* C20 as stated: in an execution with at most one worker active at any
\* time, the stored lastPeakSample of an entity never decreases from one
\* save of its metadata to the next.
C20_LastPeakNonDecreasing == [][LastPeakNotLowered]_vars

\* C24 as stated: queueEcgJob appends the job to the stream and returns to
\* its caller the id the server assigned to the appended entry.
C24_EnqueueReturnsId ==
    queueReply # <<>> =>
       /\ Len(stream) > 0
       /\ queueReply[Len(queueReply)] = Some(Len(stream))

(***************************************************************************)
(* The engines a call of processEcgChunk creates and disposes of.  An      *)
(* await of the call may reject: `fault` names the one that does.          *)
(***************************************************************************)
EngineFaults == {"none", "loadState", "process", "saveState", "cleaner"}

\* Per engine instance created by the call, how often dispose() was called
\* on it; cleaner is None when calculateHeartRate returned before creating
\* it or was not reached.
EngineUse(chunk, prevState, md, fault) ==
    LET nPeaks == Len(chunk)
                     + (IF IsSome(OrNull(md.lastPeakSample)) THEN 1 ELSE 0)
        early == \/ fault = "loadState" /\ IsSome(prevState)
                 \/ fault \in {"process", "saveState"}
        cleanerMade == ~early /\ nPeaks >= 2
        threw == early \/ (cleanerMade /\ fault = "cleaner")
    IN  [threw |-> threw,
         pipeline |-> IF threw THEN 0 ELSE 1,
         cleaner |-> IF cleanerMade THEN Some(IF threw THEN 0 ELSE 1) ELSE None]

(***************************************************************************)
(* The library called directly (as scripts/testPipeline.js calls           *)
(* detectArrhythmia), on arguments drawn from bounded sets; the worker and *)
(* the queue stay as they are after construction.                          *)
(***************************************************************************)
appVars == <<loopVars, queueVars, storeVars, produced, pc, localVars,
             procVars, faults, scanFaults, histVars>>

LibRates ==
    {Finite(v) : v \in {-53, 0, 1, 59, 60, 61, 100, 101, 150, 151, 300}}
       \cup {Infinite}
LibHrvs == {0, 150, 151}
LibBatches ==
    {<<>>, <<9000>>, <<9000, 9000>>, <<9000, 13500>>, <<9000, 13525>>,
     <<13525, 9000>>, <<9000, 18000, 9000>>, <<0, 9000>>, <<0, 0>>,
     <<-9000, 9000>>}

\* detectArrhythmia(bpm, hrv, currentRrIntervals), called directly.
CallDetectArrhythmia(bpm, hrv, currentRrIntervals) ==
    /\ probe' = Some([op |-> "detectArrhythmia",
                      args |-> [bpm |-> bpm, hrv |-> hrv,
                                currentRrIntervals |-> currentRrIntervals],
                      reply |-> DetectArrhythmia(bpm, hrv, currentRrIntervals)])
    /\ UNCHANGED <<queueReply, pollVars, appVars>>

Called(op) == IsSome(probe) /\ Val(probe).op = op

\* The severities of the alerts of one type, in the order they were pushed.
RECURSIVE Severities(_, _)
Severities(alerts, type) ==
    IF alerts = <<>> THEN <<>>
    ELSE (IF Head(alerts).type = type THEN <<Head(alerts).severity>> ELSE <<>>)
            \o Severities(Tail(alerts), type)

\* C21: detectArrhythmia raises one bradycardia warning exactly when
\* 0 < bpm < 60 and one tachycardia alert exactly when bpm > 100, critical
\* when bpm > 150 and warning otherwise, whatever hrv and the batch's
\* intervals are.
C21_RateRules ==
    Called("detectArrhythmia") =>
       LET bpm == Val(probe).args.bpm
           alerts == Val(probe).reply.alerts
           low == bpm.finite /\ bpm.value > 0 /\ bpm.value < 60
           high == ~bpm.finite \/ bpm.value > 100
           veryHigh == ~bpm.finite \/ bpm.value > 150
       IN  /\ Severities(alerts, "bradycardia") =
                 IF low THEN <<"warning">> ELSE <<>>
           /\ Severities(alerts, "tachycardia") =
                 IF veryHigh THEN <<"critical">>
                 ELSE IF high THEN <<"warning">> ELSE <<>>

\* A rate of 59 with high variability and an uneven batch: the bradycardia
\* warning stands next to the two other alerts.
C21_Witness ==
    /\ Called("detectArrhythmia")
    /\ Val(probe).args.bpm = Finite(59)
    /\ Val(probe).args.hrv = 151
    /\ Val(probe).args.currentRrIntervals = <<9000, 18000, 9000>>
    /\ Len(Val(probe).reply.alerts) = 3

LibChunks == {<<>>, <<50>>, <<100, 300>>, <<10, 100, 300>>}
LibStates == {None, Some(<<0>>)}
LibMetadata ==
    {[chunkIndex |-> 1, lastPeakSample |-> l, rrHistory |-> h] :
        l \in {None, Some(300)}, h \in {<<>>, <<9000, 18000>>}}

\* processEcgChunk(chunk, previousState, metadata), called directly.
CallProcessEcgChunk(chunk, prevState, md, fault) ==
    LET use == EngineUse(chunk, prevState, md, fault)
    IN  /\ probe' = Some([op |-> "processEcgChunk",
                          args |-> [chunk |-> chunk, previousState |-> prevState,
                                    metadata |-> md, fault |-> fault],
                          reply |-> [engines |-> use,
                                     value |-> IF use.threw THEN None
                                               ELSE Some(ProcessEcgChunk(
                                                      chunk, prevState, md))]])
        /\ UNCHANGED <<queueReply, pollVars, appVars>>

\* Batches of 800 ms intervals with one interval of another length, given
\* in samples, which the engine may or may not score as an outlier.
LibBeatCounts == 6..8
LibSamples == {107, 108, 288, 324, 720, 721, 900}
RECURSIVE PeaksOf(_)
PeaksOf(gaps) ==
    IF gaps = <<>> THEN <<0>>
    ELSE LET before == PeaksOf(SubSeq(gaps, 1, Len(gaps) - 1))
         IN  Append(before, before[Len(before)] + gaps[Len(gaps)])
LibBeats ==
    {[peaks |-> PeaksOf([i \in 1..n |-> IF i = p THEN gap ELSE 288]),
      outlier |-> [i \in 1..n |-> i = p /\ z]] :
        n \in LibBeatCounts, p \in 1..8, gap \in LibSamples, z \in BOOLEAN}

\* calculateHeartRate(peaks), called directly (scripts/testPipeline.js):
\* what it returns, and the locals of its cleaning loop.
CallCalculateHeartRate(peaks, outlier) ==
    LET rrIntervals == RRIntervals(peaks, SAMPLE_RATE)
    IN  /\ Len(peaks) >= 2
        /\ probe' = Some([op |-> "calculateHeartRate",
                          args |-> [peaks |-> peaks, outlier |-> outlier],
                          reply |-> [bpm |-> HeartRate(peaks, SAMPLE_RATE),
                                     rrIntervals |-> rrIntervals,
                                     hrv |-> RollingHrv(rrIntervals)],
                          locals |-> CleanIntervals(rrIntervals, outlier)])
        /\ UNCHANGED <<queueReply, pollVars, appVars>>

NextLib ==
    \/ \E bpm \in LibRates, hrv \in LibHrvs, rr \in LibBatches :
          CallDetectArrhythmia(bpm, hrv, rr)
    \/ \E beats \in LibBeats : CallCalculateHeartRate(beats.peaks, beats.outlier)
    \/ \E chunk \in LibChunks, st \in LibStates, md \in LibMetadata,
          fault \in EngineFaults :
          CallProcessEcgChunk(chunk, st, md, fault)

SpecLib == Init /\ [][NextLib]_vars

\* Math.max(a, b) / Math.min(a, b) exceeds 3/2.
RatioAbove3To2(a, b) ==
    LET hi == IF a >= b THEN a ELSE b
        lo == IF a >= b THEN b ELSE a
    IN  \/ lo > 0 /\ 2 * hi > 3 * lo
        \/ lo = 0 /\ hi > 0

UnevenPairs(rr) == {i \in 1..(Len(rr) - 1) : RatioAbove3To2(rr[i], rr[i + 1])}

PvcRule(alerts, batch) ==
    Severities(alerts, "pvc") = IF UnevenPairs(batch) # {} THEN <<"info">> ELSE <<>>

\* C22: detectArrhythmia pushes one pvc info alert iff some adjacent pair of
\* the current batch's intervals has max / min > 1.5, and only one however
\* many pairs qualify; processEcgChunk hands it the batch's own intervals,
\* so the intervals carried in rrHistory do not count.
C22_PvcOncePerBatch ==
    /\ Called("detectArrhythmia") =>
          PvcRule(Val(probe).reply.alerts, Val(probe).args.currentRrIntervals)
    /\ (Called("processEcgChunk") /\ IsSome(Val(probe).reply.value)) =>
          LET r == Val(Val(probe).reply.value)
          IN  PvcRule(r.arrhythmia.alerts, r.rrIntervals)

\* Two uneven pairs in one batch gave one alert, and an uneven pair carried
\* in rrHistory with an even batch gave none.
C22_Witness ==
    \/ /\ Called("detectArrhythmia")
       /\ Cardinality(UnevenPairs(Val(probe).args.currentRrIntervals)) = 2
       /\ Severities(Val(probe).reply.alerts, "pvc") = <<"info">>
    \/ /\ Called("processEcgChunk") /\ IsSome(Val(probe).reply.value)
       /\ UnevenPairs(Val(probe).args.metadata.rrHistory) # {}
       /\ Len(Val(Val(probe).reply.value).rrIntervals) = 2
       /\ Severities(Val(Val(probe).reply.value).arrhythmia.alerts, "pvc") = <<>>

\* C25 as stated: on every path through processEcgChunk and
\* calculateHeartRate, a rejected loadState or processCopy included,
\* dispose() is called exactly once on each engine the call created.
C25_EveryEngineDisposedOnce ==
    Called("processEcgChunk") =>
       LET use == Val(probe).reply.engines
       IN  /\ use.pipeline = 1
           /\ IsSome(use.cleaner) => Val(use.cleaner) = 1

(***************************************************************************)
(* The order of the steps of processJob (checked on the worker, Spec).     *)
(***************************************************************************)
Entered(t, p) == pc[t] # p /\ pc'[t] = p

\* Both loads precede the engine, both saves follow it and precede the ack.
LoadProcessSaveAck ==
    \A t \in Tasks :
        /\ Entered(t, "loadMeta") =>
              /\ pc[t] = "loadState"
              /\ previousState'[t] = StoreGet(stateStore, SensorOf(t))
        /\ Entered(t, "process") =>
              /\ pc[t] = "loadMeta"
              /\ metadata'[t] = Some(LoadedMetadata(LoadMetadataReply(
                                        StoreGet(metaStore, SensorOf(t)))))
        /\ (result[t] = None /\ result'[t] # None) => pc[t] = "process"
        /\ Entered(t, "saveState") => pc[t] = "process" /\ IsSome(result'[t])
        /\ Entered(t, "saveMeta") =>
              /\ pc[t] = "saveState"
              /\ StoreGet(stateStore, SensorOf(t))' = Some(Val(result[t]).state)
        /\ \A p \in {"saveResult", "publish", "ack"} :
              Entered(t, p) =>
                 /\ pc[t] \in {"saveMeta", "saveResult", "publish"}
                 /\ pc[t] = "saveMeta" =>
                       StoredMetadata(SensorOf(t))' = SavedMetadata(Val(result[t]))
        /\ (~ackCalled[t] /\ ackCalled'[t]) => pc[t] = "ack"

\* C23: in processJob, for every job, the first chunk of a sensor included,
\* the state and the metadata are loaded before processEcgChunk is called,
\* and the new state and metadata are saved after it has returned and
\* before ackEcgJob is called.
C23_LoadsBeforeSavesBeforeAck ==
    /\ [](\A t \in Tasks : pc[t] \in {"saveState", "saveMeta", "ack"} =>
             IsSome(result[t]) /\ IsSome(metadata[t]))
    /\ [][LoadProcessSaveAck]_vars

\* The first chunk of a sensor is about to be acknowledged: nothing was
\* stored when it was loaded, and state and metadata are stored now.
C23_Witness ==
    \E t \in Tasks :
        /\ pc[t] = "ack" /\ Val(job[t]).chunkIndex = 0
        /\ previousState[t] = None /\ Val(metadata[t]) = EmptyMetadata
        /\ IsSome(stateStore[SensorOf(t)]) /\ IsSome(metaStore[SensorOf(t)])

\* The task that appends to a result log or publishes has acknowledged its
\* message before.
EmitsAfterAck ==
    \A t \in Tasks :
        (pc[t] \in {"saveResult", "publish"} /\ pc'[t] # pc[t]
            /\ (resultLog' # resultLog \/ published' # published)) =>
           ackCalled[t]

\* C29 as stated: for a successfully processed job the worker saves the
\* state, saves the metadata, acknowledges the message, and only then
\* appends the result to the result log and publishes it.
C29_AckBeforeEmit == [][EmitsAfterAck]_vars

\* A call of initializeConsumerGroup returns / rejects in this step.
GroupInitReturns(t) == pc[t] = "init" /\ pc'[t] = "xpending"
GroupInitRejects(t) == Up(t) /\ alive'[Consumer(t)] = "failed"

GroupInitIdempotent ==
    \A t \in Workers :
        /\ GroupInitReturns(t) =>
              /\ groupCreated' /\ Up(t)'
              /\ groupCreated =>
                    /\ lastDelivered' = lastDelivered
                    /\ pel' = pel
                    /\ stream' = stream
        /\ GroupInitRejects(t) =>
              /\ ~Up(t)' /\ pc'[t] = "init"
              /\ UNCHANGED queueVars

\* C26: when the group exists, initializeConsumerGroup returns without an
\* error and leaves the group's last-delivered id and pending entries as
\* they were; any other failure is rethrown to main() (which ends the
\* process) and the start-up goes no further.
C26_GroupInitIdempotent ==
    /\ [](\A t \in Workers : (pc[t] = "init" /\ ~Up(t)) => ~running[Consumer(t)])
    /\ [][GroupInitIdempotent]_vars

\* A worker has just initialized the group that another worker had created
\* and read from: a message is pending and the cursor has advanced.
C26_Witness ==
    \E t \in Workers :
        /\ pc[t] = "xpending" /\ groupCreated
        /\ lastDelivered > 0 /\ DOMAIN pel # {}
        /\ \A id \in DOMAIN pel : pel[id].consumer # Consumer(t)

(***************************************************************************)
(* The periodic recovery of a worker next to its polling loop.  Both       *)
(* workers have finished their start-up on an empty stream: the group      *)
(* exists, the timers are armed and both main() loops poll.  The timer of  *)
(* "w1" fires from time to time, "w2" may die at any point.                *)
(***************************************************************************)
SweepDeliveries == 4        \* deliveries of one message that are followed
SweepMsgs == 1              \* chunks the sensor sends

InitSweep ==
    /\ stream = <<>>
    /\ groupCreated = TRUE
    /\ lastDelivered = 0
    /\ pel = <<>>
    /\ stateStore = [e \in Sensors |-> None]
    /\ metaStore = [e \in Sensors |-> None]
    /\ resultLog = [e \in Sensors |-> <<>>]
    /\ published = [e \in Sensors |-> <<>>]
    /\ produced = [e \in Sensors |-> 0]
    /\ pc = [t \in Tasks |-> IF t \in Workers THEN "poll" ELSE StartOf(t)]
    /\ job = [t \in Tasks |-> None]
    /\ previousState = [t \in Tasks |-> None]
    /\ metadata = [t \in Tasks |-> None]
    /\ result = [t \in Tasks |-> None]
    /\ pendingScan = [t \in Tasks |-> <<>>]
    /\ recoveredJobs = [t \in Tasks |-> <<>>]
    /\ outcome = [t \in Tasks |-> "none"]
    /\ ackCalled = [t \in Tasks |-> FALSE]
    /\ alive = [w \in Workers |-> "up"]
    /\ running = [w \in Workers |-> TRUE]
    /\ pelCleanupInterval = [w \in Workers |-> TRUE]
    /\ backlogMode = [t \in Tasks |-> FALSE]
    /\ queueDepth = [t \in Tasks |-> None]
    /\ faults = [t \in Tasks |-> 0]
    /\ scanFaults = 0
    /\ dequeuedBy = <<>>
    /\ ackedBy = <<>>
    /\ persisted = <<>>
    /\ batches = [e \in Sensors |-> <<>>]
    /\ queueReply = <<>>
    /\ probe = None
    /\ consecutiveEmptyPolls = [t \in Tasks |-> 0]
    /\ waitTime = [t \in Tasks |-> None]

\* The interval timer of startPelCleanup fires: its callback calls
\* recoverPendingMessages, whatever main() is waiting for at that moment.
CleanupFires(t) ==
    /\ Up(t) /\ pc[t] = "timer"
    /\ pelCleanupInterval[Consumer(t)] /\ running[Consumer(t)]
    /\ pc' = [pc EXCEPT ![t] = "xpending"]
    /\ UNCHANGED <<libVars, loopVars, queueVars, storeVars, produced, localVars,
                   procVars, faults, scanFaults, histVars>>

NextSweep ==
    \/ \E samples \in PeakInputs :
          Len(stream) < SweepMsgs /\ QueueEcgJob("s1", samples)
    \/ \E t \in Cleanups : CleanupFires(t)
    \/ \E t \in Cleanups : RecoverScan(t)
    \/ \E t \in Cleanups : RecoverClaimBelow(SweepDeliveries, t)
    \/ \E t \in Workers : DequeueEcgJob(t)
    \/ \E t \in Workers : GetQueueDepth(t)
    \/ \E t \in Tasks : LoadPipelineState(t)
    \/ \E t \in Tasks : LoadMetadata(t)
    \/ \E t \in Tasks : ProcessChunk(t)
    \/ \E t \in Tasks : SavePipelineState(t)
    \/ \E t \in Tasks : SaveMetadata(t)
    \/ \E t \in Tasks : SaveResult(t)
    \/ \E t \in Tasks : PublishResult(t)
    \/ \E t \in Tasks : AckEcgJob(t)
    \/ \E t \in Tasks : JobReturns(t)
    \/ Crash("w2")
    \/ Tick

SpecSweep == InitSweep /\ [][NextSweep]_vars

\* The delivery counters stay below the number that is followed.
SweepDeliveriesNotReached ==
    \A id \in DOMAIN pel : pel[id].deliveries < SweepDeliveries

\* The processJob invocations of worker w that have loaded the entity's
\* state and have not acknowledged their message yet.
JobsInFlight(w) == {t \in Tasks : Consumer(t) = w /\ InFlight(pc[t])}

\* C28 as stated: within one worker at most one job is in flight; the main
\* loop and the periodic recovery never have two processJob invocations
\* between state load and acknowledgment at the same time.
C28_OneJobInFlightPerWorker ==
    \A w \in Workers : alive[w] = "up" => Cardinality(JobsInFlight(w)) <= 1

(***************************************************************************)
(* The same system with the progress the code's scheduling gives: time     *)
(* passes, the interval timer of the running worker fires again and again, *)
(* and each awaited call of its callback completes.                        *)
(***************************************************************************)
SweepProgress ==
    /\ WF_vars(Tick)
    /\ \A t \in Cleanups :
          /\ WF_vars(CleanupFires(t))
          /\ WF_vars(RecoverScan(t))
          /\ WF_vars(RecoverClaimBelow(SweepDeliveries, t))
          /\ WF_vars(LoadPipelineState(t))
          /\ WF_vars(LoadMetadata(t))
          /\ WF_vars(ProcessChunk(t))
          /\ WF_vars(SavePipelineState(t))
          /\ WF_vars(SaveMetadata(t))
          /\ WF_vars(SaveResult(t))
          /\ WF_vars(PublishResult(t))
          /\ WF_vars(AckEcgJob(t))
          /\ WF_vars(JobReturns(t))

SpecSweepFair == InitSweep /\ [][NextSweep]_vars /\ SweepProgress

\* Worker w has died inside processJob for message id, after
\* savePipelineState had returned and before ackEcgJob was called.
AfterSaveBeforeAck == {"saveMeta", "saveResult", "publish", "ack"}
CrashedAfterSave(w, id) ==
    /\ alive[w] = "crashed"
    /\ pc[w] \in AfterSaveBeforeAck
    /\ IsSome(job[w]) /\ Val(job[w]).messageId = id

\* The step in which that happens.
CrashesAfterSave(w, id) == alive[w] = "up" /\ CrashedAfterSave(w, id)'

\* A running task has message id as its job and has loaded, for it, a state
\* that the chunk of this very job has already been fed into.
ReprocessedOnAdvancedState(id) ==
    \E t \in Tasks :
        /\ Up(t) /\ InFlight(pc[t])
        /\ IsSome(job[t]) /\ Val(job[t]).messageId = id
        /\ IsSome(previousState[t])
        /\ Val(job[t]).chunkIndex \in Range(Val(previousState[t]))

\* A pending entry changes hands only when it has been idle long enough.
ReclaimedOnlyWhenIdle ==
    \A id \in DOMAIN pel :
        (id \in DOMAIN pel' /\ pel'[id].deliveries > pel[id].deliveries) =>
            pel[id].idle >= XCLAIM_MIN_IDLE_MS

\* C30 as stated: when a worker crashes after saving the entity's state and
\* before acknowledging the job, the message is still pending, and while a
\* worker keeps running its recovery it is eventually reclaimed (once it has
\* been idle for 30000 ms) and processed again against the state that was
\* saved.
C30_CrashedJobReprocessed ==
    /\ [][\A w \in Workers, id \in 1..MaxMsgs :
             CrashesAfterSave(w, id) => id \in DOMAIN pel']_vars
    /\ [][ReclaimedOnlyWhenIdle]_vars
    /\ \A w \in Workers, id \in 1..MaxMsgs :
          CrashedAfterSave(w, id) ~> ReprocessedOnAdvancedState(id)

\* The entry of message id is pending and still owned by consumer w.
PendingWith(w, id) == id \in DOMAIN pel /\ pel[id].consumer = w

\* C30: when a worker crashes after saving the entity's state and before
\* acknowledging the job, the message is still pending unless some consumer
\* has acknowledged it in the meantime; and when its entry is still owned
\* by the crashed worker, then, while a worker keeps running its recovery,
\* the message is eventually reclaimed (only once it has been idle for
\* 30000 ms) and processed again against the state that was saved.
C30_UnclaimedCrashedJobReprocessed ==
    /\ [][\A w \in Workers, id \in 1..MaxMsgs :
             (CrashesAfterSave(w, id) /\ id \notin DOMAIN ackedBy) =>
                 id \in DOMAIN pel']_vars
    /\ [][ReclaimedOnlyWhenIdle]_vars
    /\ \A w \in Workers, id \in 1..MaxMsgs :
          (CrashedAfterSave(w, id) /\ PendingWith(w, id))
              ~> ReprocessedOnAdvancedState(id)

\* The recovery timer's task works on the message of the crashed worker and
\* has loaded the state that worker had saved.
C30_Witness ==
    \E w \in Workers, id \in 1..MaxMsgs, t \in Cleanups :
        /\ CrashedAfterSave(w, id)
        /\ Up(t) /\ InFlight(pc[t])
        /\ IsSome(job[t]) /\ Val(job[t]).messageId = id
        /\ Val(job[t]).deliveryCount = Some(1)
        /\ IsSome(previousState[t])
        /\ Val(job[t]).chunkIndex \in Range(Val(previousState[t]))

(***************************************************************************)
(* A chunk the engine rejects every time it is fed: worker "w1" polls with *)
(* its recovery timer armed, and every processJob on that chunk ends in    *)
(* the catch block.                                                        *)
(***************************************************************************)
RetryMsgs == 1              \* chunks the sensor sends
RetryDeliveries == 5        \* deliveries of one message that are followed
MAX_RETRIES == 3            \* "Retry (max 3)" of the resilience diagram
RetryTasks == {"w1"} \cup Cleanups

\* await processEcgChunk(...) rejects: control passes to the catch block.
EngineThrows(t) ==
    /\ pc[t] = "process"
    /\ JobThrows(t)
    /\ UNCHANGED faults

NextRetry ==
    \/ \E samples \in PeakInputs :
          Len(stream) < RetryMsgs /\ QueueEcgJob("s1", samples)
    \/ \E t \in Cleanups : CleanupFires(t)
    \/ \E t \in Cleanups : RecoverScan(t)
    \/ \E t \in Cleanups : RecoverClaimBelow(RetryDeliveries, t)
    \/ DequeueEcgJob("w1")
    \/ GetQueueDepth("w1")
    \/ \E t \in RetryTasks : LoadPipelineState(t)
    \/ \E t \in RetryTasks : LoadMetadata(t)
    \/ \E t \in RetryTasks : EngineThrows(t)
    \/ \E t \in RetryTasks : JobReturns(t)
    \/ Tick

SpecRetry == InitSweep /\ [][NextRetry]_vars

\* The number of times the job of task t had been delivered before.
Retry(t) == IF IsSome(Val(job[t]).deliveryCount)
            THEN Val(Val(job[t]).deliveryCount) ELSE 0

\* C27 as stated: a failed job is retried at most 3 times; when its third
\* retry has failed it is taken out of the pending entries (moved to a
\* dead-letter queue) and no consumer processes it a further time.
C27_RetriedAtMostThreeTimes ==
    \A t \in Tasks : IsSome(job[t]) =>
        /\ Retry(t) <= MAX_RETRIES
        /\ (Returned(t) /\ Failed(t) /\ Retry(t) = MAX_RETRIES) =>
              Val(job[t]).messageId \notin DOMAIN pel

(***************************************************************************)
(* Two chunks of one entity in flight on two workers.                      *)
(***************************************************************************)
BothSaved == {"saveResult", "publish", "ack"}

\* t and u run in different worker processes on different chunks of the
\* same entity and have loaded the same state blob and metadata, which
\* hold neither chunk.
SamePrior(t, u) ==
    /\ Consumer(t) # Consumer(u)
    /\ IsSome(job[t]) /\ IsSome(job[u])
    /\ SensorOf(t) = SensorOf(u)
    /\ Val(job[t]).chunkIndex # Val(job[u]).chunkIndex
    /\ pc[t] \in JobSteps \ {"loadState", "loadMeta"}
    /\ pc[u] \in JobSteps \ {"loadState", "loadMeta"}
    /\ previousState[t] = previousState[u]
    /\ metadata[t] = metadata[u]
    /\ IsSome(previousState[t]) =>
          {Val(job[t]).chunkIndex, Val(job[u]).chunkIndex}
              \cap Range(Val(previousState[t])) = {}

StoredState(e) == IF IsSome(stateStore[e]) THEN Val(stateStore[e]) ELSE <<>>
MetadataOf(t) == Some(JsonStringify(SavedMetadata(Val(result[t]))))

\* Both have saved: what is stored is the result of one of them alone.
OneChunkSurvives ==
    \A t, u \in Tasks :
        (SamePrior(t, u) /\ pc[t] \in BothSaved /\ pc[u] \in BothSaved) =>
            /\ stateStore[SensorOf(t)]
                  \in {Some(Val(result[t]).state), Some(Val(result[u]).state)}
            /\ ~({Val(job[t]).chunkIndex, Val(job[u]).chunkIndex}
                    \subseteq Range(StoredState(SensorOf(t))))
            /\ metaStore[SensorOf(t)] \in {MetadataOf(t), MetadataOf(u)}

\* The later save replaces what the earlier one stored.
LaterSaveOverwrites ==
    \A t, u \in Tasks :
        (SamePrior(t, u) /\ pc[u] \in BothSaved) =>
            /\ StepFromTo(t, "saveState", "saveMeta") =>
                  /\ stateStore[SensorOf(t)] = Some(Val(result[u]).state)
                  /\ stateStore'[SensorOf(t)] = Some(Val(result[t]).state)
                  /\ Val(job[u]).chunkIndex
                        \notin Range(Val(stateStore'[SensorOf(t)]))
            /\ StepFromTo(t, "saveMeta", "saveResult") =>
                  /\ metaStore[SensorOf(t)] = MetadataOf(u)
                  /\ metaStore'[SensorOf(t)] = MetadataOf(t)

\* C31: two workers that each dequeued a different chunk of the same entity
\* can both load the same prior state and metadata; the later save then
\* overwrites the earlier one, and the stored state and metadata reflect
\* only one of the two chunks.
C31_LostUpdate ==
    /\ []OneChunkSurvives
    /\ [][LaterSaveOverwrites]_vars

\* Both workers got their chunk from dequeueEcgJob, both have saved state
\* and metadata, and the first chunk is missing from the stored state.
C31_Witness ==
    \E t, u \in Workers :
        /\ SamePrior(t, u) /\ pc[t] \in BothSaved /\ pc[u] \in BothSaved
        /\ Up(t) /\ Up(u)
        /\ Val(job[t]).deliveryCount = None /\ Val(job[u]).deliveryCount = None
        /\ Val(job[u]).chunkIndex = 0
        /\ StoredState(SensorOf(t)) = <<Val(job[t]).chunkIndex>>
        /\ metaStore[SensorOf(t)] = MetadataOf(t)
        /\ MetadataOf(t) # MetadataOf(u)

(***************************************************************************)
(* The rejected chunk with the progress the code's scheduling gives: time  *)
(* passes, the timer fires again and again, the awaited calls of its       *)
(* callback complete.                                                      *)
(***************************************************************************)
RetryProgress ==
    /\ WF_vars(Tick)
    /\ \A t \in Cleanups :
          /\ WF_vars(CleanupFires(t))
          /\ WF_vars(RecoverScan(t))
          /\ WF_vars(RecoverClaimBelow(RetryDeliveries, t))
          /\ WF_vars(LoadPipelineState(t))
          /\ WF_vars(LoadMetadata(t))
          /\ WF_vars(EngineThrows(t))
          /\ WF_vars(JobReturns(t))

SpecRetryFair == InitSweep /\ [][NextRetry]_vars /\ RetryProgress

\* Nothing leaves the stream or the pending entries.
StaysQueued ==
    /\ Len(stream') >= Len(stream)
    /\ \A id \in DOMAIN pel :
          id \in DOMAIN pel' /\ pel'[id].deliveries >= pel[id].deliveries

\* The jobs recoverPendingJobs has handed to task t: the one processJob
\* runs on and the ones that wait for their turn.
HandedTo(t) ==
    (IF IsSome(job[t]) THEN {Val(job[t])} ELSE {}) \cup Range(recoveredJobs[t])

\* An iteration of recoverPendingJobs on an entry that has been idle for
\* 30000 ms claims it and hands it on as a job; after the last iteration
\* processJob starts on the first of these jobs.
IdleEntryReprocessed ==
    \A t \in Tasks :
        (pc[t] = "xclaim" /\ pendingScan'[t] # pendingScan[t]) =>
            LET entry == Head(pendingScan[t])
                id == entry.messageId
            IN  (entry.idleTime >= IDLE_THRESHOLD_MS
                 /\ id \in DOMAIN pel /\ pel[id].idle >= XCLAIM_MIN_IDLE_MS) =>
                    /\ pel'[id].deliveries = pel[id].deliveries + 1
                    /\ pel'[id].consumer = Consumer(t)
                    /\ \E j \in HandedTo(t)' :
                          /\ j.messageId = id
                          /\ j.deliveryCount = Some(pel[id].deliveries)
                    /\ pc'[t] # "xclaim" =>
                          pc'[t] = "loadState" /\ IsSome(job'[t])

DeliveredTimes(n) == \E id \in DOMAIN pel : pel[id].deliveries = n

BetweenWrites(t) == IsSome(job[t]) /\ pc[t] = "saveMeta"

HalfWrittenUnacked ==
    \A t \in Tasks : BetweenWrites(t) =>
        /\ "state" \in Saved(Val(job[t]).messageId)
        /\ ~ackCalled[t]
        /\ Consumer(t) \notin MarkedFor(ackedBy, Val(job[t]).messageId)

\* The state write is an operation of its own, and a failure or a stop of
\* the process after it writes nothing and acknowledges nothing.
WritesAreSeparate ==
    \A t \in Tasks :
        /\ StepFromTo(t, "saveState", "saveMeta") =>
              LET after == Val(stateStore'[SensorOf(t)])
              IN  /\ after[Len(after)] = Val(job[t]).chunkIndex
                  /\ metaStore' = metaStore
                  /\ pel' = pel /\ ackedBy' = ackedBy
        /\ (BetweenWrites(t) /\ Up(t) /\ (~Up(t)' \/ pc'[t] = "jobEnd")) =>
              /\ stateStore' = stateStore /\ metaStore' = metaStore
              /\ pel' = pel /\ ackedBy' = ackedBy

\* C33: the state blob and the metadata of one job are written by two
\* separate store operations; a crash or failure between them leaves the
\* stored state blob with chunk k in it, the stored metadata as it was, and
\* the job unacknowledged.
C33_WritesNotAtomic ==
    /\ []HalfWrittenUnacked
    /\ [][WritesAreSeparate]_vars

\* A worker died between the two writes of chunk 1: the stored state holds
\* chunks 0 and 1, the stored metadata is that of chunk 0, and the message
\* is pending.
C33_Witness ==
    \E t \in Tasks :
        /\ BetweenWrites(t) /\ alive[Consumer(t)] = "crashed"
        /\ Val(job[t]).chunkIndex = 1
        /\ StoredState(SensorOf(t)) = <<0, 1>>
        /\ IsSome(metaStore[SensorOf(t)])
        /\ StoredMetadata(SensorOf(t)).lastPeakSample = Some(50)
        /\ Val(job[t]).messageId \in DOMAIN pel
        /\ ~Acked(Val(job[t]).messageId)

(***************************************************************************)
(* The polling loop of one worker on a queue that is empty most of the     *)
(* time: the worker has finished its start-up, a sensor sends a chunk now  *)
(* and then.                                                               *)
(***************************************************************************)
PollMsgs == 3               \* chunks the sensor sends
PollEmptyPolls == 7         \* consecutive empty polls that are followed

NextPoll ==
    \/ \E samples \in PeakInputs :
          Len(stream) < PollMsgs /\ Enqueue("s1", samples)
    \/ DequeueEcgJobWithin(PollEmptyPolls, "w1")
    \/ GetQueueDepth("w1")
    \/ LoadPipelineState("w1")
    \/ LoadMetadata("w1")
    \/ ProcessChunk("w1")
    \/ SavePipelineState("w1")
    \/ SaveMetadata("w1")
    \/ SaveResult("w1")
    \/ PublishResult("w1")
    \/ AckEcgJob("w1")
    \/ JobReturns("w1")

SpecPoll == InitSweep /\ [][NextPoll]_vars

\* The poll of task t in this step, with nothing / with a job in its reply.
PollsEmpty(t) == pc[t] = "poll" /\ pc'[t] = "poll"
                    /\ <<consecutiveEmptyPolls[t], waitTime[t]>>'
                          # <<consecutiveEmptyPolls[t], waitTime[t]>>
PollsJob(t) == pc[t] = "poll" /\ pc'[t] = "depth"

EmptyPollWaits ==
    \A t \in Tasks :
        /\ PollsEmpty(t) =>
              /\ lastDelivered' = lastDelivered
              /\ consecutiveEmptyPolls'[t] = consecutiveEmptyPolls[t] + 1
              /\ waitTime'[t] = Some(IF consecutiveEmptyPolls'[t] \in 1..5
                                     THEN 10 ELSE 100)
        /\ PollsJob(t) =>
              consecutiveEmptyPolls'[t] = 0 /\ waitTime'[t] = None
        /\ (~PollsEmpty(t) /\ ~PollsJob(t)) =>
              consecutiveEmptyPolls'[t] = consecutiveEmptyPolls[t]

\* C34: an empty poll makes the loop wait 10 ms, and 100 ms once more than 5
\* polls in a row were empty (the 1st to 5th wait 10 ms, the later ones
\* 100 ms); the counter of consecutive empty polls goes back to 0 whenever a
\* job is dequeued.
C34_EmptyPollWaits == [][EmptyPollWaits]_vars

\* After a job, the loop has polled in vain six times and sleeps 100 ms.
C34_Witness ==
    /\ lastDelivered > 0
    /\ pc["w1"] = "poll"
    /\ consecutiveEmptyPolls["w1"] = 6
    /\ waitTime["w1"] = Some(100)

(***************************************************************************)
(* calculateHeartRate: the cleaning of the intervals.                      *)
(***************************************************************************)
\* 0.8 * a + 0.2 * b = c, for fractions a and c and an interval b.
IsSmoothed(a, b, c) ==
    c = Fraction(4 * a.num + b * a.den, 5 * a.den)

\* C35 as stated: an interval is flagged iff it is below 300 ms or above
\* 2000 ms, or it is the 6th or a later interval of the batch and its |z|
\* exceeds 2.0; a flagged interval is replaced by the running estimate, and
\* the estimate (seeded with the first interval, smoothing factor 0.2)
\* advances only on intervals that are not flagged.
C35_OutlierCleaning ==
    Called("calculateHeartRate") =>
        LET rr == Val(probe).reply.rrIntervals
            z == Val(probe).args.outlier
            loop == Val(probe).locals
        IN  /\ loop.runningMean[1] = [num |-> rr[1], den |-> 1]
            /\ \A i \in 1..Len(rr) :
                  /\ loop.flagged[i] <=>
                        \/ rr[i] < 300 * MS_DEN
                        \/ rr[i] > 2000 * MS_DEN
                        \/ i >= 6 /\ z[i]
                  /\ loop.nnIntervals[i] =
                        IF loop.flagged[i] THEN loop.runningMean[i]
                        ELSE [num |-> rr[i], den |-> 1]
                  /\ i < Len(rr) =>
                        IF loop.flagged[i]
                        THEN loop.runningMean[i + 1] = loop.runningMean[i]
                        ELSE IsSmoothed(loop.runningMean[i], rr[i],
                                        loop.runningMean[i + 1])

\* The batch of the example: six intervals that pass, then one of 2500 ms.
CeilingExample ==
    /\ Called("calculateHeartRate")
    /\ LET rr == Val(probe).reply.rrIntervals
           loop == Val(probe).locals
       IN  /\ Len(rr) >= 7
           /\ rr[7] = 2500 * MS_DEN
           /\ \A i \in 1..6 : ~loop.flagged[i]
           /\ loop.runningMean[7].den = 1

\* The intervals with the 7th replaced by the running estimate.
CleanedExample ==
    [Val(probe).reply.rrIntervals EXCEPT ![7] = Val(probe).locals.runningMean[7].num]

\* C36 as stated: for a batch with one interval of 2500 ms after a 6-sample
\* warm-up, the value that enters the variability computation at that
\* position is the running smoothed estimate, while the rate of the batch is
\* computed from the mean of the raw intervals, 2500 included.
C36_CleanedValueEntersVariability ==
    CeilingExample =>
        /\ Val(probe).locals.flagged[7]
        /\ Val(probe).locals.nnIntervals[7] = Val(probe).locals.runningMean[7]
        /\ Val(probe).reply.hrv = RollingHrv(CleanedExample)
        /\ Val(probe).reply.bpm = HeartRate(Val(probe).args.peaks, SAMPLE_RATE)

\* The part of C36 that the code has: the rate comes from the raw intervals,
\* and so does the variability.
RawValueEntersVariability ==
    CeilingExample =>
        /\ Val(probe).reply.hrv = RollingHrv(Val(probe).reply.rrIntervals)
        /\ Val(probe).reply.hrv # RollingHrv(CleanedExample)

(***************************************************************************)
(* The loop of worker w1 next to another consumer of the group, which      *)
(* calls dequeueEcgJob and ackEcgJob on the store, one job at a time,      *)
(* while the producer fills the queue above the backlog threshold with     *)
(* chunks that have no beat in them.                                       *)
(***************************************************************************)
DrainMsgs == 11
DrainEmptyPolls == 1

InitDrain ==
    /\ stream = <<>>
    /\ groupCreated = TRUE
    /\ lastDelivered = 0
    /\ pel = <<>>
    /\ stateStore = [e \in Sensors |-> None]
    /\ metaStore = [e \in Sensors |-> None]
    /\ resultLog = [e \in Sensors |-> <<>>]
    /\ published = [e \in Sensors |-> <<>>]
    /\ produced = [e \in Sensors |-> 0]
    /\ pc = [t \in Tasks |-> IF t = "w1" THEN "poll"
                           ELSE IF t = "w2" THEN "call" ELSE StartOf(t)]
    /\ job = [t \in Tasks |-> None]
    /\ previousState = [t \in Tasks |-> None]
    /\ metadata = [t \in Tasks |-> None]
    /\ result = [t \in Tasks |-> None]
    /\ pendingScan = [t \in Tasks |-> <<>>]
    /\ recoveredJobs = [t \in Tasks |-> <<>>]
    /\ outcome = [t \in Tasks |-> "none"]
    /\ ackCalled = [t \in Tasks |-> FALSE]
    /\ alive = [w \in Workers |-> "up"]
    /\ running = [w \in Workers |-> TRUE]
    /\ pelCleanupInterval = [w \in Workers |-> TRUE]
    /\ backlogMode = [t \in Tasks |-> FALSE]
    /\ queueDepth = [t \in Tasks |-> None]
    /\ faults = [t \in Tasks |-> 0]
    /\ scanFaults = 0
    /\ dequeuedBy = <<>>
    /\ ackedBy = <<>>
    /\ persisted = <<>>
    /\ batches = [e \in Sensors |-> <<>>]
    /\ queueReply = <<>>
    /\ probe = None
    /\ consecutiveEmptyPolls = [t \in Tasks |-> 0]
    /\ waitTime = [t \in Tasks |-> None]

DrainProduce == Len(stream) < DrainMsgs /\ Enqueue("s1", <<>>)

\* The other consumer takes its next job once it has acknowledged the last.
OtherDequeues(c) ==
    /\ \A id \in DOMAIN pel : pel[id].consumer # c
    /\ lastDelivered < Len(stream)
    /\ QDequeue(c)

OtherStep ==
    \/ OtherDequeues("w2")
    \/ \E id \in DOMAIN pel : QAck("w2", id)

LoopStep ==
    \/ DequeueEcgJobWithin(DrainEmptyPolls, "w1")
    \/ GetQueueDepth("w1")
    \/ LoadPipelineState("w1")
    \/ LoadMetadata("w1")
    \/ ProcessChunk("w1")
    \/ SavePipelineState("w1")
    \/ SaveMetadata("w1")
    \/ SaveResult("w1")
    \/ PublishResult("w1")
    \/ AckEcgJob("w1")
    \/ JobReturns("w1")

NextDrain == DrainProduce \/ OtherStep \/ LoopStep

SpecDrain == InitDrain /\ [][NextDrain]_vars

\* Every await of the loop of w1 returns, and the other consumer goes on.
DrainProgress ==
    /\ WF_vars(OtherStep)
    /\ WF_vars(LoopStep)

SpecDrainFair == InitDrain /\ [][NextDrain]_vars /\ DrainProgress

BacklogModeLeftOnSample ==
    (backlogMode["w1"] /\ pc["w1"] = "loadState"
        /\ Val(queueDepth["w1"]) <= BACKLOG_EXIT) ~> ~backlogMode["w1"]

(***************************************************************************)
(* The intervals that stitching computes under redelivery.                 *)
(***************************************************************************)
AllPositive(intervals) == \A i \in 1..Len(intervals) : intervals[i] > 0

\* C38 as stated: after any sequence of deliveries of an entity's chunks, a
\* redelivery of a chunk whose state and metadata were saved and a delivery
\* out of order included, every interval that stitching computes is strictly
\* positive, the reported rate is a finite number that is not negative, and
\* every value in the stored window of recent intervals is positive.
C38_StitchedIntervalsPositive ==
    /\ \A t \in Processed :
          /\ AllPositive(Val(result[t]).rrIntervals)
          /\ Val(result[t]).bpm.finite
          /\ Val(result[t]).bpm.value >= 0
    /\ \A e \in Sensors :
          IsSome(metaStore[e]) => AllPositive(StoredMetadata(e).rrHistory)

(***************************************************************************)
(* Two consumers that run recoverPendingJobs over the same pending list,   *)
(* while time passes.                                                      *)
(***************************************************************************)
RecoverDeliveries == 3      \* cap of the delivery counter in this section

NextRecover ==
    \/ \E samples \in PeakInputs : QueueEcgJob("s1", samples)
    \/ \E c \in Workers : QInitializeConsumerGroup(c)
    \/ \E c \in Workers : QDequeue(c)
    \/ \E c \in Workers : QRecoverScan(c)
    \/ \E c \in Workers : QRecoverClaimBelow(RecoverDeliveries, c)
    \/ QTick

SpecRecover == Init /\ [][NextRecover]_vars

\* Both consumers are inside the loop of recoverPendingJobs.
BothRecovering(c, o) == c # o /\ pc[c] = "xclaim" /\ pc[o] = "xclaim"

\* C39 as stated: when two workers run recoverPendingJobs concurrently over
\* the same pending list, no message is returned to both of them.
C39_NoMessageReturnedToBoth ==
    \A c, o \in Workers :
        BothRecovering(c, o) => RecoveredIds(c) \cap RecoveredIds(o) = {}

\* Consumer c handles, in its loop, the entry of message id, which consumer o
\* has claimed in its own run of recoverPendingJobs and still owns.
SecondClaim(c, o, id) ==
    /\ c # o /\ pc[c] = "xclaim" /\ RecoverStepOf(c)
    /\ Head(pendingScan[c]).messageId = id
    /\ id \in RecoveredIds(o) /\ id \in DOMAIN pel /\ pel[id].consumer = o

SecondClaimNeedsIdle ==
    \A c, o \in Workers : \A id \in DOMAIN pel :
        SecondClaim(c, o, id) =>
            IF /\ Head(pendingScan[c]).idleTime >= IDLE_THRESHOLD_MS
               /\ pel[id].idle >= XCLAIM_MIN_IDLE_MS
            THEN /\ pel'[id].consumer = c /\ pel'[id].idle = 0
                 /\ id \in RecoveredIds(c)'
            ELSE /\ pel' = pel
                 /\ recoveredJobs'[c] = recoveredJobs[c] \/ recoveredJobs'[c] = <<>>
                 /\ id \notin RecoveredIds(c)' \ RecoveredIds(c)

\* C39: a claim takes an entry only if the entry has been idle for 30000 ms
\* at the time of the claim (and was so in the XPENDING reply of the run),
\* and a claim resets the idle time; so the second
\* worker's claim of an entry that the first worker claimed less than
\* 30000 ms before returns nothing and the entry is skipped, and a message is
\* returned to both only when it has been idle for 30000 ms again.
C39_SecondClaimSkipped == [][SecondClaimNeedsIdle]_vars

\* The second consumer has passed over message 1, which the first had
\* claimed, and goes on with message 2.
C39_Witness ==
    \E c, o \in Workers :
        /\ BothRecovering(c, o) \/ (c # o /\ pc[c] = "xclaim" /\ pc[o] = "call")
        /\ 1 \in RecoveredIds(o) /\ 1 \notin RecoveredIds(c)
        /\ 1 \in DOMAIN pel /\ pel[1].consumer = o /\ pel[1].deliveries = 2
        /\ Len(pendingScan[c]) = 1 /\ Head(pendingScan[c]).messageId = 2
        /\ pendingScan[o] = <<>> \/ Head(pendingScan[o]).messageId = 2

(***************************************************************************)
(* No message is lost.                                                     *)
(***************************************************************************)
Undelivered(id) == id > lastDelivered
PendingForOne(id) == id \in DOMAIN pel /\ pel[id].consumer \in Workers
Acknowledged(id) == Acked(id) /\ id \notin DOMAIN pel

\* In how many of the three conditions message id is.
ConditionsOf(id) ==
    Cardinality({k \in 1..3 : \/ k = 1 /\ Undelivered(id)
                              \/ k = 2 /\ id \in DOMAIN pel
                              \/ k = 3 /\ Acked(id)})

InOneCondition ==
    \A id \in 1..Len(stream) :
        /\ ConditionsOf(id) = 1
        /\ Undelivered(id) \/ PendingForOne(id) \/ Acknowledged(id)

\* A message becomes acknowledged in a step of a processJob that has
\* processed it and saved state, metadata and result, and is at ackEcgJob.
AckedAfterProcessing ==
    \A id \in 1..Len(stream) :
        (Acked(id)' /\ ~Acked(id)) =>
            \E t \in Tasks :
                /\ pc[t] = "ack" /\ pc'[t] # "ack"
                /\ IsSome(job[t]) /\ Val(job[t]).messageId = id
                /\ IsSome(result[t])
                /\ Saved(id) = AllSaved
                /\ id \in DOMAIN pel /\ id \notin DOMAIN pel'

\* C40: in every reachable state, under any interleaving of enqueue,
\* dequeue, acknowledge, recoverPendingJobs, job failures and worker crashes,
\* each enqueued message is in exactly one of three conditions: not yet
\* delivered, pending for exactly one consumer, or acknowledged; and it
\* becomes acknowledged only through an ackEcgJob call made after a complete
\* processing of it.
C40_NoMessageLost ==
    /\ []InOneCondition
    /\ [][AckedAfterProcessing]_vars

\* A message is acknowledged, and another one, whose job had saved the state
\* when its worker crashed, is pending.
C40_Witness ==
    \E w \in Workers, id \in DOMAIN pel, done \in 1..Len(stream) :
        /\ alive[w] = "crashed" /\ pel[id].consumer = w
        /\ Saved(id) # {} /\ ~Acked(id)
        /\ Acknowledged(done)

=============================================================================
